---- MODULE Spec2Model ----
(***************************************************************************)
(* Ticket Synchronization Engine of capabl-automagic (Humanize bridge).   *)
(*                                                                         *)
(* The model follows scripts/notion-bridge.ts and the Humanize CLI:        *)
(*   - the property extractors and extractTicket,                          *)
(*   - resolveDataSourceId and the cursor walk of fetchAllShipyardPages,   *)
(*   - the filter and sort of fetchReadyTickets and syncState,             *)
(*   - the snapshot file humanize_state.json, read and rewritten by        *)
(*     syncState and appendHistory.                                        *)
(* The remote store is the environment: it answers every request with an  *)
(* error object or with a chunk of its listing.                            *)
(***************************************************************************)
EXTENDS Integers, Sequences, FiniteSets, TLC

VARIABLES
    TARGET_APP,     \* configured scope tag, "" when unset
    AI_SQUAD_ID,    \* configured acting identity, "" when unset
    dataSourceId,   \* module variable _dataSourceId, NULL until resolved
    remote,         \* the remote store's listing: a sequence of raw pages
    file,           \* content of STATE_FILE (humanize_state.json)
    pc,             \* position of the running command
    op,             \* the exported function being run
    pages,          \* fetchAllShipyardPages: local pages
    cursor,         \* fetchAllShipyardPages: local cursor
    requests,       \* start_cursor of every query request of the traversal
    responses,      \* every query response of the traversal
    done,           \* how the last call of an exported function ended
    missed,         \* entries handed to appendHistory while the file was missing
    bridge,         \* the bridge module loaded: notion-bridge.ts or its copy in part_001
    cmd,            \* the command of the running CLI invocation, "none" outside one
    log,            \* remote requests and sleeps of the running invocation, in order
    procs           \* concurrent invocations working on STATE_FILE: position and locals

vars == << TARGET_APP, AI_SQUAD_ID, dataSourceId, remote, file, pc, op,
           pages, cursor, requests, responses, done, missed,
           bridge, cmd, log, procs >>

----------------------------------------------------------------------------
(* Bounds of the model *)

MaxRequests == 3    \* query requests the remote lets one traversal take
MaxHistory == 2     \* longest history the snapshot is grown to

(* JavaScript null / undefined *)
NULL == "<null>"

Range(s) == { s[i] : i \in 1..Len(s) }

RECURSIVE SelectSeq2(_, _)
SelectSeq2(s, keep) ==
    IF s = << >> THEN << >>
    ELSE (IF keep[1] THEN << Head(s) >> ELSE << >>)
         \o SelectSeq2(Tail(s), Tail(keep))

RECURSIVE Flatten(_)
Flatten(ss) == IF ss = << >> THEN << >> ELSE Head(ss) \o Flatten(Tail(ss))

----------------------------------------------------------------------------
(* Raw remote pages.  A property is a record tagged by `type`; a property  *)
(* the page does not carry is not in the domain of `properties`.  The      *)
(* payload under the key of the type is the second field: a list (text,    *)
(* names, ids; one entry per element, NULL for a null element), a name, a  *)
(* url or a start.  A property with the tag alone has a missing or null    *)
(* payload; `other` holds a payload that is neither null nor of the shape  *)
(* the type calls for.                                                     *)

Undefined == [type |-> "undefined"]

Prop(props, key) == IF key \in DOMAIN props THEN props[key] ELSE Undefined

Title(spans)       == [type |-> "title", text |-> spans]
RichText(spans)    == [type |-> "rich_text", text |-> spans]
Status(name)       == [type |-> "status", name |-> name]
Select(name)       == [type |-> "select", name |-> name]
MultiSelect(names) == [type |-> "multi_select", names |-> names]
Relation(ids)      == [type |-> "relation", ids |-> ids]
People(ids)        == [type |-> "people", ids |-> ids]
Url(url)           == [type |-> "url", url |-> url]
Date(start)        == [type |-> "date", start |-> start]

RECURSIVE Join(_)
Join(spans) == IF spans = << >> THEN "" ELSE Head(spans) \o Join(Tail(spans))

(* extractPlainText: rich_text and title shapes, spans joined, "" -> null *)
extractPlainText(prop) ==
    IF prop = Undefined THEN NULL
    ELSE IF prop.type \in {"rich_text", "title"} /\ "text" \in DOMAIN prop
         THEN (IF Join(prop.text) = "" THEN NULL ELSE Join(prop.text))
         ELSE NULL

(* extractSelect: select and status shapes *)
extractSelect(prop) ==
    IF prop = Undefined THEN NULL
    ELSE IF prop.type \in {"select", "status"} /\ "name" \in DOMAIN prop
         THEN prop.name
         ELSE NULL

(* an extractor for multi_select alone *)
extractMultiSelectNative(prop) ==
    IF prop = Undefined THEN << >>
    ELSE IF prop.type = "multi_select" /\ "names" \in DOMAIN prop
         THEN prop.names
         ELSE << >>

(* extractMultiSelect: multi_select, or a select carrying a value *)
extractMultiSelect(prop) ==
    IF prop = Undefined THEN << >>
    ELSE IF prop.type = "multi_select"
         THEN (IF "names" \in DOMAIN prop THEN prop.names ELSE << >>)
    ELSE IF /\ prop.type = "select" /\ "name" \in DOMAIN prop
            /\ prop.name # NULL /\ prop.name # ""
         THEN << prop.name >>
         ELSE << >>

extractUrl(prop) ==
    IF prop = Undefined THEN NULL
    ELSE IF prop.type = "url"
         THEN (IF "url" \in DOMAIN prop THEN prop.url
               ELSE IF "other" \in DOMAIN prop THEN prop.other ELSE NULL)
         ELSE NULL

extractDate(prop) ==
    IF prop = Undefined THEN NULL
    ELSE IF prop.type = "date" /\ "start" \in DOMAIN prop THEN prop.start
         ELSE NULL

extractRelationIds(prop) ==
    IF prop = Undefined \/ prop.type # "relation" \/ "ids" \notin DOMAIN prop
    THEN << >> ELSE prop.ids

extractAssigneeIds(prop) ==
    IF prop = Undefined \/ prop.type # "people" \/ "ids" \notin DOMAIN prop
    THEN << >> ELSE prop.ids

(* an eligibility test that lets unassigned tickets through *)
isAssignedOrUnassigned(prop, aiSquadId) ==
    IF aiSquadId = "" THEN TRUE
    ELSE \/ aiSquadId \in Range(extractAssigneeIds(prop))
         \/ extractAssigneeIds(prop) = << >>

isAssignedToAISquad(prop, aiSquadId) ==
    IF aiSquadId = "" THEN TRUE
    ELSE aiSquadId \in Range(extractAssigneeIds(prop))

(* a ?? b that forgets the default *)
CoalesceLeft(a, b) == a

(* a ?? b *)
Coalesce(a, b) == IF a = NULL THEN b ELSE a

First(s) == IF s = << >> THEN NULL ELSE s[1]

(* page.properties ?? {} *)
propertiesOf(page) ==
    IF "properties" \in DOMAIN page THEN page.properties ELSE << >>

(* extractTicket throws a TypeError: one of its extractors calls .map on *)
(* a payload that is not a list, or reads a field of a null element.     *)
(* isAssignedToAISquad reads the Assignee only when aiSquadId is set.    *)
raises(page, aiSquadId) ==
    LET props == propertiesOf(page)
        text == {"Ticket", "Summary", "Branch", "Commit"}
        reads ==
          [ key \in text |-> {"rich_text", "title"} ]
          @@ [ key \in {"Application", "Area"} |-> {"multi_select"} ]
          @@ [ key \in {"Dependency", "Blocks "} |-> {"relation"} ]
          @@ [ key \in (IF aiSquadId = "" THEN {} ELSE {"Assignee"}) |-> {"people"} ]
    IN  \E key \in DOMAIN reads \cap DOMAIN props :
          /\ props[key].type \in reads[key]
          /\ \/ "other" \in DOMAIN props[key]
             \/ \E list \in DOMAIN props[key] \ {"type", "other"} :
                  NULL \in Range(props[key][list])

extractTicket(page, aiSquadId) ==
    LET props == propertiesOf(page)
        apps  == extractMultiSelect(Prop(props, "Application"))
        areas == extractMultiSelect(Prop(props, "Area"))
        Field(key) == IF key \in DOMAIN page THEN page[key] ELSE NULL
    IN  [ id          |-> page.id,
          title       |-> Coalesce(extractPlainText(Prop(props, "Ticket")), "(untitled)"),
          status      |-> Coalesce(extractSelect(Prop(props, "Status")), "Open"),
          summary     |-> extractPlainText(Prop(props, "Summary")),
          spec_url    |-> extractUrl(Prop(props, "Spec URL")),
          due         |-> extractDate(Prop(props, "Due")),
          branch      |-> extractPlainText(Prop(props, "Branch")),
          commit      |-> extractPlainText(Prop(props, "Commit")),
          feature     |-> extractSelect(Prop(props, "Feature")),
          resolved_at |-> extractDate(Prop(props, "Resolved At")),
          area        |-> First(areas),
          application |-> First(apps),
          type        |-> extractSelect(Prop(props, "Type")),
          priority    |-> extractSelect(Prop(props, "Priority")),
          blocked_by  |-> extractRelationIds(Prop(props, "Dependency")),
          blocks      |-> extractRelationIds(Prop(props, "Blocks ")),
          created_at  |-> Field("created_time"),
          updated_at  |-> Field("last_edited_time"),
          assigned_to_ai_squad |-> isAssignedToAISquad(Prop(props, "Assignee"), aiSquadId) ]

----------------------------------------------------------------------------
(* Queue builder: the filter and the sort shared by syncState and          *)
(* fetchReadyTickets.                                                      *)

excluded == {"Done", "Blocked by human", "On hold"}

matchesApp(ticket, targetApp) ==
    targetApp = "" \/ ticket.application = targetApp

(* a filter that forgets the assignee *)
InActiveQueueAnyAssignee(ticket, targetApp) ==
    /\ matchesApp(ticket, targetApp)
    /\ ticket.status \notin excluded

InActiveQueue(ticket, targetApp) ==
    /\ matchesApp(ticket, targetApp)
    /\ ticket.assigned_to_ai_squad
    /\ ticket.status \notin excluded

(* a ready filter that forgets the scope *)
IsReadyAnyApp(ticket, targetApp) ==
    /\ ticket.status = "Open"
    /\ ticket.assigned_to_ai_squad

IsReady(ticket, targetApp) ==
    /\ ticket.status = "Open"
    /\ matchesApp(ticket, targetApp)
    /\ ticket.assigned_to_ai_squad

QueueItem(ticket) ==
    [ ticket_id  |-> ticket.id,
      title      |-> ticket.title,
      area       |-> ticket.area,
      status     |-> ticket.status,
      priority   |-> ticket.priority,
      blocked_by |-> ticket.blocked_by,
      blocks     |-> ticket.blocks,
      branch     |-> ticket.branch ]

QueueItems(tickets) == [ i \in 1..Len(tickets) |-> QueueItem(tickets[i]) ]

(* String.prototype.localeCompare on the priority names *)
PriorityNames == << "P0", "P1", "P2", "P3", "P4" >>

CollationRank(s) == CHOOSE i \in 1..Len(PriorityNames) : PriorityNames[i] = s

localeCompare(a, b) ==
    IF CollationRank(a) < CollationRank(b) THEN -1
    ELSE IF CollationRank(a) > CollationRank(b) THEN 1 ELSE 0

isBlocked(a) == IF Len(a.blocked_by) > 0 THEN 1 ELSE 0

(* a comparator that puts a missing priority first *)
compareNullFirst(a, b) ==
    IF isBlocked(a) # isBlocked(b) THEN isBlocked(a) - isBlocked(b)
    ELSE localeCompare(Coalesce(a.priority, "P0"), Coalesce(b.priority, "P0"))

(* the comparator handed to Array.prototype.sort *)
compare(a, b) ==
    IF isBlocked(a) # isBlocked(b) THEN isBlocked(a) - isBlocked(b)
    ELSE localeCompare(Coalesce(a.priority, "P4"), Coalesce(b.priority, "P4"))

(* a sort that places an element before the elements it ties with *)
RECURSIVE InsertBeforeTies(_, _)
InsertBeforeTies(sorted, x) ==
    IF sorted = << >> THEN << x >>
    ELSE IF compare(Head(sorted), x) >= 0 THEN << x >> \o sorted
         ELSE << Head(sorted) >> \o InsertBeforeTies(Tail(sorted), x)

(* Array.prototype.sort is stable: an element is placed after every       *)
(* element already placed that does not compare greater than it.          *)
RECURSIVE Insert(_, _)
Insert(sorted, x) ==
    IF sorted = << >> THEN << x >>
    ELSE IF compare(Head(sorted), x) > 0 THEN << x >> \o sorted
         ELSE << Head(sorted) >> \o Insert(Tail(sorted), x)

RECURSIVE sort(_)
sort(s) ==
    IF s = << >> THEN << >>
    ELSE Insert(sort(SubSeq(s, 1, Len(s) - 1)), s[Len(s)])

Tickets(rawPages, aiSquadId) ==
    [ i \in 1..Len(rawPages) |-> extractTicket(rawPages[i], aiSquadId) ]

activeFilter(tickets, targetApp) ==
    SelectSeq2(tickets, [ i \in 1..Len(tickets) |-> InActiveQueue(tickets[i], targetApp) ])

readyFilter(tickets, targetApp) ==
    SelectSeq2(tickets, [ i \in 1..Len(tickets) |-> IsReady(tickets[i], targetApp) ])

(* syncState: the queue built from the fetched pages *)
buildQueue(rawPages, targetApp, aiSquadId) ==
    sort(QueueItems(activeFilter(Tickets(rawPages, aiSquadId), targetApp)))

(* fetchReadyTickets: the tickets returned for the fetched pages *)
readyTickets(rawPages, targetApp, aiSquadId) ==
    sort(readyFilter(Tickets(rawPages, aiSquadId), targetApp))

----------------------------------------------------------------------------
(* The snapshot file.  Its content is absent, text that is not JSON, or    *)
(* the JSON text of an object; `keys` are the object's own keys among      *)
(* last_synced, queue and history, and a key that is not there reads as    *)
(* undefined.                                                              *)

Absent == [kind |-> "absent"]

Corrupt == [kind |-> "text"]

Object(keys, last_synced, queue, history) ==
    [ kind |-> "json", keys |-> keys,
      last_synced |-> IF "last_synced" \in keys THEN last_synced ELSE NULL,
      queue       |-> IF "queue" \in keys THEN queue ELSE << >>,
      history     |-> IF "history" \in keys THEN history ELSE << >> ]

StateKeys == {"last_synced", "queue", "history"}

existsSync(f) == f.kind # "absent"

(* JSON.parse(fs.readFileSync(STATE_FILE)): throws on text that is no JSON *)
JSONparse(f) ==
    IF f.kind = "json"
    THEN [ threw |-> FALSE,
           value |-> [ keys |-> f.keys, last_synced |-> f.last_synced,
                       queue |-> f.queue, history |-> f.history ] ]
    ELSE [ threw |-> TRUE,
           value |-> [ keys |-> {}, last_synced |-> NULL,
                       queue |-> << >>, history |-> << >> ] ]

(* JSON.stringify(state, null, 2) *)
JSONstringify(v) == Object(v.keys, v.last_synced, v.queue, v.history)

(* what a reader of the file finds as its history *)
HistoryOf(f) == IF f.kind = "json" THEN f.history ELSE << >>

(* a sync that always starts the history afresh *)
loadHistoryFresh(f) == << >>

(* a sync that took the history before the last entry was appended *)
loadHistoryStale(f) ==
    IF f.kind = "json" /\ f.history # << >>
    THEN SubSeq(f.history, 1, Len(f.history) - 1) ELSE << >>

(* syncState: "Load existing history or start fresh" *)
loadHistory(f) ==
    IF existsSync(f)
    THEN (IF JSONparse(f).threw THEN << >> ELSE JSONparse(f).value.history)
    ELSE << >>

(* syncState, after the fetch: the state it writes and returns *)
newState(f, rawPages, targetApp, aiSquadId, now) ==
    [ keys        |-> StateKeys,
      last_synced |-> now,
      queue       |-> buildQueue(rawPages, targetApp, aiSquadId),
      history     |-> loadHistory(f) ]

(* an append that puts the new entry in front *)
appendHistoryFront(f, item) ==
    IF existsSync(f) /\ ~JSONparse(f).threw
    THEN LET state == JSONparse(f).value
         IN  JSONstringify([ state EXCEPT
                 !.keys = @ \cup {"history"},
                 !.history = << item >> \o state.history ])
    ELSE f

(* an append that writes a snapshot holding the history alone *)
appendHistoryRewrite(f, item) ==
    IF existsSync(f) /\ ~JSONparse(f).threw
    THEN JSONstringify([ keys |-> {"history"}, last_synced |-> NULL, queue |-> << >>,
                         history |-> Append(JSONparse(f).value.history, item) ])
    ELSE f

(* an append that replaces an unparsable file by a fresh snapshot *)
appendHistoryRecover(f, item) ==
    IF existsSync(f)
    THEN LET state == JSONparse(f).value
         IN  JSONstringify([ state EXCEPT
                 !.keys = @ \cup {"history"},
                 !.history = Append(state.history, item) ])
    ELSE f

(* an append that creates the file when it is missing *)
appendHistoryCreate(f, item) ==
    IF JSONparse(f).threw /\ existsSync(f)
    THEN f
    ELSE LET state == JSONparse(f).value
         IN  JSONstringify([ state EXCEPT
                 !.keys = @ \cup {"history"},
                 !.history = Append(state.history, item) ])

(* appendHistory: the content of STATE_FILE after the call *)
appendHistory(f, item) ==
    IF existsSync(f)
    THEN (IF JSONparse(f).threw
          THEN f
          ELSE LET state == JSONparse(f).value
               IN  JSONstringify([ state EXCEPT
                       !.keys = @ \cup {"history"},
                       !.history = Append(state.history, item) ]))
    ELSE f

----------------------------------------------------------------------------
(* Remote requests and sleeps, as the log keeps them *)

RATE_LIMIT_DELAY == 350

Get(path) == [kind |-> "request", method |-> "GET", path |-> path]

Send(method, path, body) ==
    [kind |-> "request", method |-> method, path |-> path, body |-> body]

sleep(ms) == [kind |-> "sleep", ms |-> ms]

(* the log after `events`; only a CLI invocation or a script keeps one *)
Logged(events) == IF cmd = "none" THEN log ELSE log \o events

----------------------------------------------------------------------------
(* Data-source resolution *)

(* String.prototype.includes over a name given as its words *)
includesWord(name, word) == word \in Range(name)

RECURSIVE find(_, _)
find(sources, word) ==
    IF sources = << >> THEN NULL
    ELSE IF includesWord(Head(sources).name, word) THEN Head(sources).id
         ELSE find(Tail(sources), word)

(* a resolution that always takes the first listed source *)
pickFirstListed(sources) == sources[1].id

pickDataSource(sources) == Coalesce(find(sources, "Tickets"), sources[1].id)

ErrorObject == [object |-> "error"]

Database(sources) == [object |-> "database", data_sources |-> sources]

DatabaseResponses ==
    { ErrorObject,
      Database(<< >>),
      Database(<< [id |-> "ds1", name |-> <<"Capabl", "OS", "Docs">>],
                  [id |-> "ds2", name |-> <<"Capabl", "OS", "Tickets">>] >>) }

----------------------------------------------------------------------------
(* The listing endpoint.  A cursor names an offset into the listing.       *)

CursorTokens == << "A", "B", "C", "D", "E", "F", "G", "H" >>

CursorAt(offset) == CursorTokens[offset + 1]

OffsetOf(c) ==
    IF c = NULL THEN 0
    ELSE (CHOOSE i \in 1..Len(CursorTokens) : CursorTokens[i] = c) - 1

List(results, has_more, next_cursor) ==
    [ object |-> "list", results |-> results,
      has_more |-> has_more, next_cursor |-> next_cursor ]

(* the answers the remote may give to a query that starts at `start`, the  *)
(* `nth` request of the traversal: an error object, a chunk with a cursor  *)
(* to the rest, the rest of the listing, or the rest flagged has_more but  *)
(* carrying no usable cursor                                               *)
QueryResponses(listing, start, nth) ==
    LET off  == OffsetOf(start)
        left == Len(listing) - off
    IN  { ErrorObject }
        \cup { List(SubSeq(listing, off + 1, off + k), TRUE, CursorAt(off + k)) :
                 k \in { j \in 0..left : j < left /\ nth < MaxRequests } }
        \cup { List(SubSeq(listing, off + 1, Len(listing)), FALSE, NULL) }
        \cup { List(SubSeq(listing, off + 1, Len(listing)), TRUE, c) :
                 c \in {NULL, ""} }

(* the body of a query request *)
queryBody(start) ==
    IF start = NULL THEN [page_size |-> 100]
    ELSE [page_size |-> 100, start_cursor |-> start]

(* JavaScript truthiness of a cursor *)
Truthy(c) == c # NULL /\ c # ""

(* a traversal that never sends the cursor it was given *)
startCursorNever(c) == NULL

(* the request body's start_cursor: sent only when cursor is truthy *)
startCursor(c) == IF Truthy(c) THEN c ELSE NULL

(* a traversal that takes an error object for a page *)
isErrorNever(data) == FALSE

(* data.object === "error" *)
isError(data) == "object" \in DOMAIN data /\ data.object = "error"

(* data.data_sources ?? [] *)
sourcesOf(data) ==
    IF "data_sources" \in DOMAIN data THEN data.data_sources ELSE << >>

(* data.results ?? [] *)
resultsOf(data) == IF "results" \in DOMAIN data THEN data.results ELSE << >>

(* a traversal that takes every response for the last one *)
nextCursorNone(data) == NULL

(* cursor = data.has_more ? data.next_cursor : undefined *)
nextCursor(data) ==
    IF "has_more" \in DOMAIN data /\ data.has_more THEN data.next_cursor ELSE NULL

----------------------------------------------------------------------------
(* The mutation functions.  Each operator gives what one call does once    *)
(* the remote has answered its write with `data`: the requests and sleeps  *)
(* it makes, in order, and how it ends.                                    *)

Result(events, threw, error, value) ==
    [ events |-> events, threw |-> threw, error |-> error, value |-> value ]

(* TEAM_USERS: the three members listed in notion-bridge.ts; in part_001   *)
(* the map comes from the environment and is empty when that is unset      *)
TEAM_USERS(b) ==
    IF b = "notion-bridge.ts"
    THEN ("Marco Lanzi" :> "72881aba")
         @@ ("Davide Bolognini" :> "2bed872b")
         @@ ("Mara Pescione" :> "2c6d872b")
    ELSE << >>

(* TEAM_USERS[name].  The map is a plain object, so the lookup of a name *)
(* it does not hold goes on to Object.prototype: for a member of that it  *)
(* gives a function or an object, which is truthy, is no user id, and     *)
(* which JSON.stringify leaves out of the request; undefined otherwise.   *)
userIdOf(b, name) ==
    IF name \in DOMAIN TEAM_USERS(b) THEN TEAM_USERS(b)[name]
    ELSE IF name \in {"constructor", "toString", "valueOf", "hasOwnProperty",
                      "__proto__"}
    THEN "[inherited]"
    ELSE NULL

(* a write that is sent again when it fails *)
patchRetry(pageId, body, message, data) ==
    IF isError(data)
    THEN Result(<< Send("PATCH", "/pages/" \o pageId, body),
                   Send("PATCH", "/pages/" \o pageId, body) >>, TRUE, message, << >>)
    ELSE Result(<< Send("PATCH", "/pages/" \o pageId, body), sleep(RATE_LIMIT_DELAY) >>,
                FALSE, "", << >>)

(* a write that returns without the sleep *)
patchNoSleep(pageId, body, message, data) ==
    IF isError(data)
    THEN Result(<< Send("PATCH", "/pages/" \o pageId, body) >>, TRUE, message, << >>)
    ELSE Result(<< Send("PATCH", "/pages/" \o pageId, body) >>, FALSE, "", << >>)

(* the tail every update function shares: one PATCH of the page, the check *)
(* of the answer, the sleep                                                *)
patch(pageId, body, message, data) ==
    IF isError(data)
    THEN Result(<< Send("PATCH", "/pages/" \o pageId, body) >>, TRUE, message, << >>)
    ELSE Result(<< Send("PATCH", "/pages/" \o pageId, body), sleep(RATE_LIMIT_DELAY) >>,
                FALSE, "", << >>)

(* updateTicketStatus: the properties written; the copy of the bridge in   *)
(* part_001 writes the status alone                                        *)
(* a status update that hands every ticket to review *)
updateTicketStatusReview(b, pageId, status, now, data) ==
    patch(pageId, [properties |-> ("Status" :> Status("In Review"))],
          "Status update failed", data)

(* a status update that reads the page first and will not reopen a      *)
(* ticket that is Done                                                    *)
updateTicketStatusChecked(b, pageId, status, now, data) ==
    IF remote # << >> /\ extractSelect(Prop(propertiesOf(remote[1]), "Status")) = "Done"
    THEN Result(<< Get("/pages/" \o pageId) >>, TRUE, "Status update failed", << >>)
    ELSE patch(pageId, [properties |-> ("Status" :> Status(status))],
               "Status update failed", data)

updateTicketStatus(b, pageId, status, now, data) ==
    LET properties ==
          IF b = "notion-bridge.ts" /\ status \in {"Done", "Review AI Fix"}
          THEN ("Status" :> Status(status)) @@ ("Resolved At" :> Date(now))
          ELSE ("Status" :> Status(status))
    IN  patch(pageId, [properties |-> properties], "Status update failed", data)

updateTicketBranch(pageId, branch, data) ==
    patch(pageId, [properties |-> ("Branch" :> RichText(<< branch >>))],
          "Branch update failed", data)

(* updateTicketDependencies: an argument is << >> when it is not given and *)
(* << ids >> when it is                                                    *)
(* a dependency update that writes both relations whatever is given *)
updateTicketDependenciesBoth(pageId, blockedBy, blocks, data) ==
    patch(pageId,
          [properties |->
             ("Dependency" :> Relation(IF blockedBy # << >> THEN blockedBy[1] ELSE << >>))
             @@ ("Blocks " :> Relation(IF blocks # << >> THEN blocks[1] ELSE << >>))],
          "Dependency update failed", data)

updateTicketDependencies(pageId, blockedBy, blocks, data) ==
    LET properties ==
          (IF blockedBy # << >> THEN ("Dependency" :> Relation(blockedBy[1])) ELSE << >>)
          @@ (IF blocks # << >> THEN ("Blocks " :> Relation(blocks[1])) ELSE << >>)
    IN  IF DOMAIN properties = {}
        THEN Result(<< >>, FALSE, "", << >>)
        ELSE patch(pageId, [properties |-> properties],
                   "Dependency update failed", data)

updateTicketAssignee(b, pageId, assigneeName, data) ==
    IF userIdOf(b, assigneeName) = NULL
    THEN Result(<< >>, TRUE, "Unknown team member " \o assigneeName, << >>)
    ELSE patch(pageId,
               [properties |-> ("Assignee" :> People(<< userIdOf(b, assigneeName) >>))],
               "Assignee update failed", data)

updateTicketType(pageId, type, data) ==
    patch(pageId, [properties |-> ("Type" :> Select(type))],
          "Type update failed", data)

updateTicketCommit(pageId, commit, data) ==
    patch(pageId, [properties |-> ("Commit" :> RichText(<< commit >>))],
          "Commit update failed", data)

updateTicketFeature(pageId, feature, data) ==
    patch(pageId, [properties |-> ("Feature" :> Select(feature))],
          "Feature update failed", data)

(* JavaScript truthiness of an optional string *)
Given(x) == x # NULL /\ x # ""

(* updateTicketCompletion: the properties written are those of the options given *)
updateTicketCompletion(pageId, options, now, data) ==
    LET properties ==
          (IF Given(options.status)
           THEN (IF options.status \in {"Done", "Review AI Fix"}
                 THEN ("Status" :> Status(options.status)) @@ ("Resolved At" :> Date(now))
                 ELSE ("Status" :> Status(options.status)))
           ELSE << >>)
          @@ (IF Given(options.commit)
              THEN ("Commit" :> RichText(<< options.commit >>)) ELSE << >>)
          @@ (IF Given(options.feature)
              THEN ("Feature" :> Select(options.feature)) ELSE << >>)
    IN  IF DOMAIN properties = {}
        THEN Result(<< >>, FALSE, "", << >>)
        ELSE patch(pageId, [properties |-> properties],
                   "Ticket completion update failed", data)

deleteTicket(pageId, data) ==
    patch(pageId, [archived |-> TRUE], "Delete failed", data)

(* String.prototype.substring(from, to), a text being the sequence of its units *)
substring(text, from, to) == SubSeq(text, from + 1, IF to < Len(text) THEN to ELSE Len(text))

BLOCK_SIZE == 2000

TITLE_SIZE == 200

(* a split that keeps the whole blocks only *)
RECURSIVE chunksWhole(_, _)
chunksWhole(body, i) ==
    IF i + BLOCK_SIZE <= Len(body)
    THEN << substring(body, i, i + BLOCK_SIZE) >> \o chunksWhole(body, i + BLOCK_SIZE)
    ELSE << >>

(* createTicket: for (i = 0; i < body.length; i += 2000) chunks.push(...) *)
RECURSIVE chunks(_, _)
chunks(body, i) ==
    IF i < Len(body)
    THEN << substring(body, i, i + BLOCK_SIZE) >> \o chunks(body, i + BLOCK_SIZE)
    ELSE << >>

children(body) ==
    [ k \in 1..Len(chunks(body, 0)) |->
        [ object |-> "block", type |-> "paragraph",
          rich_text |-> << chunks(body, 0)[k] >> ] ]

(* createTicket: the Assignee written, if any *)
assigneeProperty(b, assignee, aiSquadId) ==
    IF Given(assignee)
    THEN (IF userIdOf(b, assignee) # NULL
          THEN ("Assignee" :> People(<< userIdOf(b, assignee) >>))
          ELSE IF aiSquadId # "" THEN ("Assignee" :> People(<< aiSquadId >>))
          ELSE << >>)
    ELSE IF aiSquadId # "" THEN ("Assignee" :> People(<< aiSquadId >>))
    ELSE << >>

(* createTicket: notion-bridge.ts tags the ticket with TARGET_APP and takes *)
(* the type as its sixth argument; part_001 takes the application there     *)
(* (application ?? TARGET_APP) and writes the type "Task"                   *)
appNameOf(b, args, targetApp) ==
    IF b = "notion-bridge.ts" THEN targetApp
    ELSE Coalesce(args.sixth, targetApp)

createPayload(b, dsId, args, targetApp, aiSquadId) ==
    LET type == IF b = "notion-bridge.ts" THEN Coalesce(args.sixth, "Task") ELSE "Task"
        properties ==
          ("Ticket" :> Title(substring(args.title, 0, TITLE_SIZE)))
          @@ ("Status" :> Status("Open"))
          @@ ("Application" :> MultiSelect(<< appNameOf(b, args, targetApp) >>))
          @@ ("Area" :> MultiSelect(<< args.area >>))
          @@ ("Type" :> Select(type))
          @@ ("Priority" :> Select(args.priority))
          @@ assigneeProperty(b, args.assignee, aiSquadId)
    IN  IF args.body # << >>
        THEN [ parent     |-> [type |-> "data_source_id", data_source_id |-> dsId],
               properties |-> properties,
               children   |-> children(args.body) ]
        ELSE [ parent     |-> [type |-> "data_source_id", data_source_id |-> dsId],
               properties |-> properties ]

(* !data.id *)
hasId(data) == "id" \in DOMAIN data /\ Given(data.id)

(* createTicket, from the return of resolveDataSourceId on *)
createTicket(b, dsId, args, targetApp, aiSquadId, data) ==
    IF b = "part_001" /\ ~Given(appNameOf(b, args, targetApp))
    THEN Result(<< >>, TRUE, "TARGET_APP is not set and no application was provided", << >>)
    ELSE IF ~hasId(data)
    THEN Result(<< Send("POST", "/pages", createPayload(b, dsId, args, targetApp, aiSquadId)) >>,
                TRUE, "Ticket creation failed", << >>)
    ELSE Result(<< Send("POST", "/pages", createPayload(b, dsId, args, targetApp, aiSquadId)),
                   sleep(RATE_LIMIT_DELAY) >>,
                FALSE, "", << extractTicket(data, aiSquadId) >>)

(* fetchTicketDetails: the page read, the sleep, the block read *)
fetchTicketDetails(pageId, aiSquadId, pageData, blocksData) ==
    IF isError(pageData)
    THEN Result(<< Get("/pages/" \o pageId) >>, TRUE, "Failed to fetch ticket", << >>)
    ELSE IF isError(blocksData)
    THEN Result(<< Get("/pages/" \o pageId), sleep(RATE_LIMIT_DELAY),
                   Get("/blocks/" \o pageId \o "/children") >>,
                TRUE, "Failed to fetch ticket content", << >>)
    ELSE Result(<< Get("/pages/" \o pageId), sleep(RATE_LIMIT_DELAY),
                   Get("/blocks/" \o pageId \o "/children") >>,
                FALSE, "", << extractTicket(pageData, aiSquadId) >>)

(* the answers the remote may give to a write of a page *)
WriteResponses == { ErrorObject, [object |-> "page"] }

(* the answers the remote may give to the creation of a page *)
CreateResponses(payload) ==
    { ErrorObject,
      [ object |-> "page", id |-> "t7", properties |-> payload.properties ] }

----------------------------------------------------------------------------
(* The values the model draws its inputs from *)

Page(id, props) == [id |-> id, properties |-> props]

(* Open, in scope, assigned to the AI squad, P1, not blocked *)
PageOpen ==
    Page("t1", ("Ticket" :> Title(<< "Fix ", "login" >>))
            @@ ("Status" :> Status("Open"))
            @@ ("Application" :> MultiSelect(<< "X" >>))
            @@ ("Area" :> MultiSelect(<< "Backend" >>))
            @@ ("Priority" :> Select("P1"))
            @@ ("Dependency" :> Relation(<< >>))
            @@ ("Blocks " :> Relation(<< "t2" >>))
            @@ ("Assignee" :> People(<< "ai" >>)))

(* In Progress, fields converted to select, no title, no priority, blocked *)
PageBlocked ==
    Page("t2", ("Status" :> Select("In Progress"))
            @@ ("Application" :> Select("X"))
            @@ ("Dependency" :> Relation(<< "t1" >>))
            @@ ("Branch" :> RichText(<< "feature/shipyard-t2" >>))
            @@ ("Assignee" :> People(<< "bob", "ai" >>)))

(* Done, in scope, assigned to the AI squad, P0 *)
PageDone ==
    Page("t3", ("Ticket" :> Title(<< "Ship it" >>))
            @@ ("Status" :> Status("Done"))
            @@ ("Application" :> MultiSelect(<< "X" >>))
            @@ ("Priority" :> Select("P0"))
            @@ ("Assignee" :> People(<< "ai" >>)))

(* Open, another application, assigned to a human, P0 *)
PageOther ==
    Page("t4", ("Ticket" :> Title(<< "Elsewhere" >>))
            @@ ("Status" :> Status("Open"))
            @@ ("Application" :> MultiSelect(<< "Other", "X" >>))
            @@ ("Priority" :> Select("P0"))
            @@ ("Assignee" :> People(<< "bob" >>)))

(* what the remote store may list: nothing, two pages the sort has to    *)
(* swap, and listings that mix pages the filter keeps with pages it drops *)
Listings ==
    { << >>,
      << PageBlocked, PageOpen >>,
      << PageOpen, PageDone, PageOther >>,
      << PageOther, PageBlocked, PageDone, PageOpen >> }

HistoryItems ==
    { [ ticket_id |-> "t1", title |-> "(started)", action |-> "started",
        timestamp |-> "2026-01-02T10:00:00.000Z" ],
      [ ticket_id |-> "t3", title |-> "(done)", action |-> "done",
        timestamp |-> "2026-01-03T10:00:00.000Z" ] }

(* new Date().toISOString() *)
Clock == { "2026-01-04T10:00:00.000Z" }

(* a queue item of a ticket the remote no longer lists *)
StaleItem ==
    [ ticket_id |-> "t0", title |-> "Old", area |-> NULL, status |-> "Open",
      priority |-> "P0", blocked_by |-> << >>, blocks |-> << >>, branch |-> NULL ]

(* what STATE_FILE may hold when the program starts: nothing, text that    *)
(* is no JSON, the empty object, or the snapshot of an earlier sync        *)
InitialFiles ==
    { Absent, Corrupt,
      Object({}, NULL, << >>, << >>),
      Object(StateKeys, "2026-01-01T10:00:00.000Z", << StaleItem >>, << >>) }

Outcome(o, threw, error, value) ==
    [ op |-> o, threw |-> threw, error |-> error, value |-> value ]

----------------------------------------------------------------------------
(* The state machine *)

Init ==
    /\ TARGET_APP \in {"", "X"}
    /\ AI_SQUAD_ID \in {"", "ai"}
    /\ dataSourceId = NULL
    /\ remote \in Listings
    /\ file \in InitialFiles
    /\ pc = "idle"
    /\ op = "none"
    /\ pages = << >>
    /\ cursor = NULL
    /\ requests = << >>
    /\ responses = << >>
    /\ done = Outcome("none", FALSE, "", << >>)
    /\ missed = {}
    /\ bridge = "part_001"
    /\ cmd = "none"
    /\ log = << >>
    /\ procs = << >>

(* a caller enters fetchAllShipyardPages through f *)
Call(f) ==
    /\ pc = "idle"
    /\ op' = f
    /\ pc' = "resolve"
    /\ pages' = << >>
    /\ cursor' = NULL
    /\ requests' = << >>
    /\ responses' = << >>
    /\ done' = Outcome("none", FALSE, "", << >>)
    /\ UNCHANGED << TARGET_APP, AI_SQUAD_ID, dataSourceId, remote, file, missed,
                    bridge, cmd, log, procs >>

CallSyncState == Call("syncState")

CallFetchReadyTickets == Call("fetchReadyTickets")

(* an exception leaves the running function; its locals are gone *)
Throw(message) ==
    /\ pc' = "idle"
    /\ op' = "none"
    /\ done' = Outcome(op, TRUE, message, << >>)
    /\ pages' = << >>
    /\ cursor' = NULL

(* a resolution that asks the remote on every call *)
ResolveDataSourceIdAlways ==
    /\ pc = "resolve"
    /\ log' = Logged(<< Get("/databases/DB_ID") >>)
    /\ \E data \in DatabaseResponses :
         IF isError(data)
         THEN Throw("Failed to resolve data sources") /\ UNCHANGED dataSourceId
         ELSE IF Len(sourcesOf(data)) = 0
         THEN Throw("No data sources found on Shipyard database")
              /\ UNCHANGED dataSourceId
         ELSE /\ dataSourceId' = pickDataSource(sourcesOf(data))
              /\ pc' = (IF op = "createTicket" THEN "create" ELSE "query")
              /\ UNCHANGED << op, done, pages, cursor >>
    /\ UNCHANGED << TARGET_APP, AI_SQUAD_ID, remote, file, requests, responses, missed,
                    bridge, cmd, procs >>

(* resolveDataSourceId, the remote answering GET /databases/{DB_ID}, if  *)
(* it is asked, with data                                                *)
resolveDataSourceId(data) ==
    /\ pc = "resolve"
    /\ IF dataSourceId # NULL
       THEN /\ pc' = (IF op = "createTicket" THEN "create" ELSE "query")
            /\ UNCHANGED << dataSourceId, op, done, pages, cursor, log >>
       ELSE /\ log' = Logged(<< Get("/databases/DB_ID") >>)
            /\ IF isError(data)
               THEN Throw("Failed to resolve data sources") /\ UNCHANGED dataSourceId
               ELSE IF Len(sourcesOf(data)) = 0
               THEN Throw("No data sources found on Shipyard database")
                    /\ UNCHANGED dataSourceId
               ELSE /\ dataSourceId' = pickDataSource(sourcesOf(data))
                    /\ pc' = (IF op = "createTicket" THEN "create" ELSE "query")
                    /\ UNCHANGED << op, done, pages, cursor >>
    /\ UNCHANGED << TARGET_APP, AI_SQUAD_ID, remote, file, requests, missed,
                    bridge, cmd, procs >>

(* resolveDataSourceId *)
ResolveDataSourceId ==
    \E data \in DatabaseResponses : resolveDataSourceId(data) /\ UNCHANGED responses

(* a traversal that sleeps after every response *)
sleepAfterAlways(data) == << sleep(RATE_LIMIT_DELAY) >>

(* if (cursor) await sleep(RATE_LIMIT_DELAY) *)
sleepAfter(data) ==
    IF Truthy(nextCursor(data)) THEN << sleep(RATE_LIMIT_DELAY) >> ELSE << >>

(* a loop that goes on whenever the response says has_more *)
afterResponseHasMore(data) ==
    IF "has_more" \in DOMAIN data /\ data.has_more THEN "query" ELSE "fetched"

(* fetchAllShipyardPages: the position after a list response *)
afterResponse(data) == IF Truthy(nextCursor(data)) THEN "query" ELSE "fetched"

(* fetchAllShipyardPages: one turn of the do-while loop *)
QueryPage ==
    /\ pc = "query"
    /\ \E data \in QueryResponses(remote, startCursor(cursor), Len(requests) + 1) :
         /\ requests' = Append(requests, startCursor(cursor))
         /\ responses' = Append(responses, data)
         /\ IF isError(data)
            THEN /\ Throw("Data source query error")
                 /\ log' = Logged(<< Send("POST", "/data_sources/dsId/query",
                                          queryBody(startCursor(cursor))) >>)
            ELSE /\ pages' = pages \o resultsOf(data)
                 /\ cursor' = nextCursor(data)
                 /\ pc' = afterResponse(data)
                 /\ log' = Logged(<< Send("POST", "/data_sources/dsId/query",
                                          queryBody(startCursor(cursor))) >>
                                  \o sleepAfter(data))
                 /\ UNCHANGED << op, done >>
    /\ UNCHANGED << TARGET_APP, AI_SQUAD_ID, dataSourceId, remote, file, missed,
                    bridge, cmd, procs >>

(* syncState, from the return of fetchAllShipyardPages to its own return *)
SyncStateFinish ==
    /\ pc = "fetched"
    /\ op = "syncState"
    /\ \E now \in Clock :
         LET state == newState(file, pages, TARGET_APP, AI_SQUAD_ID, now)
         IN  /\ file' = JSONstringify(state)
             /\ done' = Outcome("syncState", FALSE, "", << state >>)
    /\ pc' = "idle"
    /\ pages' = << >>
    /\ cursor' = NULL
    /\ requests' = << >>
    /\ responses' = << >>
    /\ op' = "none"
    /\ UNCHANGED << TARGET_APP, AI_SQUAD_ID, dataSourceId, remote, missed,
                    bridge, cmd, log, procs >>

(* fetchReadyTickets, from the return of fetchAllShipyardPages on *)
FetchReadyTicketsFinish ==
    /\ pc = "fetched"
    /\ op = "fetchReadyTickets"
    /\ done' = Outcome("fetchReadyTickets", FALSE, "",
                       readyTickets(pages, TARGET_APP, AI_SQUAD_ID))
    /\ pc' = "idle"
    /\ pages' = << >>
    /\ cursor' = NULL
    /\ requests' = << >>
    /\ responses' = << >>
    /\ op' = "none"
    /\ UNCHANGED << TARGET_APP, AI_SQUAD_ID, dataSourceId, remote, file, missed,
                    bridge, cmd, log, procs >>

(* appendHistory(item), called while the process is at one of positions:  *)
(* the call is synchronous, so it runs to its end wherever it is made     *)
AppendHistoryAt(positions) ==
    \E item \in HistoryItems :
      /\ pc \in positions
      /\ Len(HistoryOf(file)) < MaxHistory
      /\ file' = appendHistory(file, item)
      /\ missed' = IF existsSync(file) THEN missed ELSE missed \cup {item}
      /\ done' = Outcome("appendHistory", FALSE, "", << item >>)
      /\ UNCHANGED << TARGET_APP, AI_SQUAD_ID, dataSourceId, remote, pc, op,
                      pages, cursor, requests, responses, bridge, cmd, log, procs >>

(* appendHistory(item), called by a command between two fetches *)
AppendHistory == AppendHistoryAt({"idle"})

Next ==
    \/ CallSyncState
    \/ CallFetchReadyTickets
    \/ ResolveDataSourceId
    \/ QueryPage
    \/ SyncStateFinish
    \/ FetchReadyTicketsFinish
    \/ AppendHistory

Spec == Init /\ [][Next]_vars

----------------------------------------------------------------------------
(* The queue builder over arbitrary fetched pages: the pages come from a   *)
(* larger universe, the fetch itself is left out.                          *)

MaxFetched == 3     \* most pages handed to the queue builder

PageIds == << "t1", "t2", "t3", "t4", "t5", "t6" >>

InScope(id, status, priority, dependency) ==
    Page(id, ("Ticket" :> Title(<< id >>))
          @@ ("Status" :> Status(status))
          @@ ("Application" :> MultiSelect(<< "X" >>))
          @@ ("Priority" :> Select(priority))
          @@ ("Dependency" :> Relation(dependency))
          @@ ("Assignee" :> People(<< "ai" >>)))

AnyPages(id) ==
    { InScope(id, status, priority, dependency) :
        status \in {"Open", "In Progress"},
        priority \in {"P0", "P4", NULL},
        dependency \in { << >>, << "t9" >> } }
    \cup { InScope(id, "Done", "P0", << >>),
           [ PageOther EXCEPT !.id = id ] }

InitBuild ==
    /\ \E config \in { << "X", "ai" >>, << "X", "" >>, << "", "" >> } :
         TARGET_APP = config[1] /\ AI_SQUAD_ID = config[2]
    /\ dataSourceId = "ds2"
    /\ remote = << >>
    /\ file = Absent
    /\ pc = "query"
    /\ op \in {"syncState", "fetchReadyTickets"}
    /\ pages = << >>
    /\ cursor = NULL
    /\ requests = << >>
    /\ responses = << >>
    /\ done = Outcome("none", FALSE, "", << >>)
    /\ missed = {}
    /\ bridge = "part_001"
    /\ cmd = "none"
    /\ log = << >>
    /\ procs = << >>

(* one more page arrives *)
ReceivePage ==
    /\ pc = "query"
    /\ Len(pages) < MaxFetched
    /\ \E page \in AnyPages(PageIds[Len(pages) + 1]) : pages' = Append(pages, page)
    /\ UNCHANGED << TARGET_APP, AI_SQUAD_ID, dataSourceId, remote, file, pc, op,
                    cursor, requests, responses, done, missed,
                    bridge, cmd, log, procs >>

(* fetchAllShipyardPages returns what has arrived *)
ReturnPages ==
    /\ pc = "query"
    /\ pc' = "fetched"
    /\ UNCHANGED << TARGET_APP, AI_SQUAD_ID, dataSourceId, remote, file, op,
                    pages, cursor, requests, responses, done, missed,
                    bridge, cmd, log, procs >>

NextBuild ==
    \/ ReceivePage
    \/ ReturnPages
    \/ SyncStateFinish
    \/ FetchReadyTicketsFinish

SpecBuild == InitBuild /\ [][NextBuild]_vars

----------------------------------------------------------------------------
(* extractTicket over raw pages of every shape: a page that carries all    *)
(* the properties, the pages that lack some of them or the properties map  *)
(* itself, and pages whose Assignee has another shape.                     *)

FullProperties ==
    ("Ticket" :> Title(<< "Fix ", "login" >>))
    @@ ("Status" :> Status("In Review"))
    @@ ("Summary" :> RichText(<< "Login fails" >>))
    @@ ("Spec URL" :> Url("https://spec"))
    @@ ("Due" :> Date("2026-02-01"))
    @@ ("Branch" :> RichText(<< "feature/shipyard-t1" >>))
    @@ ("Area" :> MultiSelect(<< "Backend" >>))
    @@ ("Application" :> MultiSelect(<< "X" >>))
    @@ ("Type" :> Select("Bug"))
    @@ ("Priority" :> Select("P2"))
    @@ ("Dependency" :> Relation(<< "t8" >>))
    @@ ("Blocks " :> Relation(<< "t9" >>))
    @@ ("Assignee" :> People(<< "ai" >>))

(* the same properties carrying no value: null or empty payloads *)
EmptyProperties ==
    ("Ticket" :> Title(<< >>))
    @@ ("Status" :> Status(NULL))
    @@ ("Summary" :> RichText(<< >>))
    @@ ("Spec URL" :> Url(NULL))
    @@ ("Due" :> Date(NULL))
    @@ ("Branch" :> RichText(<< >>))
    @@ ("Area" :> MultiSelect(<< >>))
    @@ ("Application" :> Select(NULL))
    @@ ("Type" :> Select(NULL))
    @@ ("Priority" :> Select(NULL))
    @@ ("Dependency" :> Relation(<< >>))
    @@ ("Blocks " :> Relation(<< >>))
    @@ ("Assignee" :> People(<< >>))

RawPage(props) ==
    [ id |-> "t1", properties |-> props,
      created_time |-> "2026-01-01T09:00:00.000Z",
      last_edited_time |-> "2026-01-02T09:00:00.000Z" ]

RawPages ==
    { RawPage([ key \in keys |-> FullProperties[key] ]) :
        keys \in SUBSET DOMAIN FullProperties }
    \cup { RawPage([ FullProperties EXCEPT !["Assignee"] = shape ]) :
             shape \in { People(<< >>), People(<< "bob" >>),
                         People(<< "bob", "ai" >>), Select("ai"),
                         RichText(<< "ai" >>), MultiSelect(<< "ai" >>) } }
    \cup { RawPage([ FullProperties EXCEPT ![key] = EmptyProperties[key] ]) :
             key \in DOMAIN FullProperties }
    \cup { RawPage([ FullProperties EXCEPT ![key] = shape ]) :
             key \in {"Area", "Application"},
             shape \in { MultiSelect(<< "Backend", "X" >>), MultiSelect(<< "X", "Backend" >>),
                         MultiSelect(<< "Frontend", "Backend", "X" >>),
                         Select("Backend"), Select("X"), Select(NULL), Select(""),
                         [type |-> "multi_select"], [type |-> "select"],
                         RichText(<< "X" >>), Status("X") } }
    \cup { [ id |-> "t1" ] }

InitExtract ==
    /\ TARGET_APP = "X"
    /\ AI_SQUAD_ID \in {"", "ai"}
    /\ dataSourceId = NULL
    /\ remote = << >>
    /\ file = Absent
    /\ pc = "extract"
    /\ op = "extractTicket"
    /\ pages \in { << page >> : page \in RawPages }
    /\ cursor = NULL
    /\ requests = << >>
    /\ responses = << >>
    /\ done = Outcome("none", FALSE, "", << >>)
    /\ missed = {}
    /\ bridge = "notion-bridge.ts"
    /\ cmd = "none"
    /\ log = << >>
    /\ procs = << >>

(* extractTicket(page) *)
ExtractTicket ==
    /\ pc = "extract"
    /\ done' = IF raises(pages[1], AI_SQUAD_ID)
               THEN Outcome("extractTicket", TRUE, "TypeError", << >>)
               ELSE Outcome("extractTicket", FALSE, "",
                            << extractTicket(pages[1], AI_SQUAD_ID) >>)
    /\ pc' = "idle"
    /\ op' = "none"
    /\ UNCHANGED << TARGET_APP, AI_SQUAD_ID, dataSourceId, remote, file, pages,
                    cursor, requests, responses, missed, bridge, cmd, log, procs >>

SpecExtract == InitExtract /\ [][ExtractTicket]_vars

(* Schema drift: pages on which one property has another shape than the  *)
(* schema gives it: the payload missing, of the wrong shape, a list with *)
(* a null element, another type tag, a value outside the enum.           *)
DriftedPages ==
    LET tags == {"title", "rich_text", "status", "select", "multi_select",
                 "relation", "people", "url", "date"}
        drifts ==
          { [type |-> tag] : tag \in tags }
          \cup { [type |-> tag, other |-> "oops"] : tag \in tags }
          \cup { Title(<< "Fix ", NULL >>), RichText(<< NULL >>),
                 MultiSelect(<< NULL >>), Relation(<< "t8", NULL >>),
                 People(<< NULL >>), Status("Archived"), Select("Archived") }
    IN  { RawPage([ FullProperties EXCEPT ![key] = drift ]) :
            key \in DOMAIN FullProperties, drift \in drifts }

InitDrift ==
    /\ TARGET_APP = "X"
    /\ AI_SQUAD_ID \in {"", "ai"}
    /\ dataSourceId = NULL
    /\ remote = << >>
    /\ file = Absent
    /\ pc = "extract"
    /\ op = "extractTicket"
    /\ pages \in { << page >> : page \in DriftedPages }
    /\ cursor = NULL
    /\ requests = << >>
    /\ responses = << >>
    /\ done = Outcome("none", FALSE, "", << >>)
    /\ missed = {}
    /\ bridge = "notion-bridge.ts"
    /\ cmd = "none"
    /\ log = << >>
    /\ procs = << >>

SpecDrift == InitDrift /\ [][ExtractTicket]_vars

----------------------------------------------------------------------------
(* Two CLI invocations on the same STATE_FILE.  Each is at the part of its *)
(* command that touches the file: appendHistory(item), or the end of       *)
(* syncState over the pages it fetched.  A read and the write that follows *)
(* it are two system calls; the other process may run between them.        *)

Invocations == {1, 2}

(* appendHistory: `state` after existsSync and JSON.parse; nothing is      *)
(* written when the file is missing or JSON.parse threw                    *)
readState(f) ==
    [ parsed |-> existsSync(f) /\ ~JSONparse(f).threw,
      value  |-> JSONparse(f).value ]

(* an append that reads the file again when it writes *)
appendHistoryWriteReread(f, state, item) == appendHistory(f, item)

(* appendHistory: STATE_FILE after state.history.push(item), writeFileSync *)
appendHistoryWrite(f, state, item) ==
    IF state.parsed
    THEN JSONstringify([ state.value EXCEPT
             !.keys = @ \cup {"history"},
             !.history = Append(state.value.history, item) ])
    ELSE f

(* syncState: STATE_FILE after writeFileSync of the state built *)
syncStateWrite(history, rawPages, targetApp, aiSquadId, now) ==
    JSONstringify([ keys        |-> StateKeys,
                    last_synced |-> now,
                    queue       |-> buildQueue(rawPages, targetApp, aiSquadId),
                    history     |-> history ])

(* an invocation about to call appendHistory(item): `state` is not read yet *)
Appending(item) ==
    [ pc |-> "read", fn |-> "appendHistory", item |-> item,
      state |-> readState(Absent) ]

(* an invocation in syncState, its queue built from the pages it fetched *)
Syncing(rawPages) ==
    [ pc |-> "read", fn |-> "syncState", pages |-> rawPages, history |-> << >> ]

InvocationsAtStart ==
    { Appending(item) : item \in HistoryItems }
    \cup { Syncing(rawPages) : rawPages \in { << >>, << PageOpen >> } }

InitRace ==
    /\ TARGET_APP = "X"
    /\ AI_SQUAD_ID = "ai"
    /\ dataSourceId = NULL
    /\ remote = << >>
    /\ file \in InitialFiles
    /\ pc = "idle"
    /\ op = "none"
    /\ pages = << >>
    /\ cursor = NULL
    /\ requests = << >>
    /\ responses = << >>
    /\ done = Outcome("none", FALSE, "", << >>)
    /\ missed = {}
    /\ bridge = "notion-bridge.ts"
    /\ cmd = "none"
    /\ log = << >>
    /\ procs \in [ Invocations -> InvocationsAtStart ]

(* existsSync and readFileSync of invocation p *)
ReadFile(p) ==
    /\ procs[p].pc = "read"
    /\ procs' = IF procs[p].fn = "appendHistory"
                THEN [ procs EXCEPT ![p].pc = "write",
                                    ![p].state = readState(file) ]
                ELSE [ procs EXCEPT ![p].pc = "write",
                                    ![p].history = loadHistory(file) ]
    /\ UNCHANGED << TARGET_APP, AI_SQUAD_ID, dataSourceId, remote, file, pc, op,
                    pages, cursor, requests, responses, done, missed,
                    bridge, cmd, log >>

(* writeFileSync of invocation p *)
WriteFile(p) ==
    /\ procs[p].pc = "write"
    /\ procs' = [ procs EXCEPT ![p].pc = "done" ]
    /\ IF procs[p].fn = "appendHistory"
       THEN file' = appendHistoryWrite(file, procs[p].state, procs[p].item)
       ELSE \E now \in Clock :
              file' = syncStateWrite(procs[p].history, procs[p].pages,
                                     TARGET_APP, AI_SQUAD_ID, now)
    /\ UNCHANGED << TARGET_APP, AI_SQUAD_ID, dataSourceId, remote, pc, op,
                    pages, cursor, requests, responses, done, missed,
                    bridge, cmd, log >>

NextRace == \E p \in Invocations : ReadFile(p) \/ WriteFile(p)

SpecRace == InitRace /\ [][NextRace]_vars

----------------------------------------------------------------------------
(* One process: the Humanize CLI running one of its commands, or a script  *)
(* that imports the bridge and calls its mutation functions.  The log      *)
(* keeps every remote request and every sleep of the process.              *)

MaxLog == 2         \* a script makes no further call once its log is this long

Commands == {"sync", "poll", "create", "start", "done", "get"}

(* --start <ticket-id>, --done <ticket-id>, --get <ticket-id> *)
TicketArg == "t1"

(* the arguments createTicket is called with *)
CreateArgs ==
    [ title : {<< "New ", "ticket" >>}, area : {"Backend"},
      body : {<< >>, << "Details" >>}, priority : {"P0"},
      assignee : {NULL, "Marco Lanzi", "Nobody", "constructor"},
      sixth : {NULL, "Story"} ]

HistoryItem(id, title, action, now) ==
    [ ticket_id |-> id, title |-> title, action |-> action, timestamp |-> now ]

InitCli ==
    /\ bridge \in {"notion-bridge.ts", "part_001"}
    /\ TARGET_APP \in (IF bridge = "notion-bridge.ts" THEN {"X"} ELSE {"", "X"})
    /\ AI_SQUAD_ID \in {"", "ai"}
    /\ cmd \in Commands \cup {"script"}
    /\ remote \in (IF cmd = "script" THEN { << >> }
                   ELSE { << >>, << PageBlocked, PageOpen >> })
    /\ file \in (IF cmd = "script" THEN { Absent }
                 ELSE { Absent, Object(StateKeys, "2026-01-01T10:00:00.000Z",
                                       << StaleItem >>, << >>) })
    /\ dataSourceId = NULL
    /\ pc = IF cmd = "script" THEN "idle" ELSE "main"
    /\ op = "none"
    /\ pages = << >>
    /\ cursor = NULL
    /\ requests = << >>
    /\ responses = << >>
    /\ done = Outcome("none", FALSE, "", << >>)
    /\ missed = {}
    /\ log = << >>
    /\ procs = << >>

(* a process that goes on after a call that threw *)
ReturnsGoesOn(f, r, next) ==
    /\ log' = Logged(r.events)
    /\ done' = Outcome(f, r.threw, r.error, r.value)
    /\ pc' = next

(* a bridge function the process awaited has ended with result r; an      *)
(* exception ends a CLI command, a script goes on                          *)
Returns(f, r, next) ==
    /\ log' = Logged(r.events)
    /\ done' = Outcome(f, r.threw, r.error, r.value)
    /\ pc' = IF r.threw THEN "idle" ELSE next

(* cmdSync, cmdPoll, cmdCreate: up to the first remote call *)
Enter(command, f) ==
    /\ pc = "main"
    /\ cmd = command
    /\ op' = f
    /\ pc' = "resolve"
    /\ UNCHANGED << TARGET_APP, AI_SQUAD_ID, dataSourceId, remote, file, pages,
                    cursor, requests, responses, done, missed, bridge, cmd, log,
                    procs >>

cmdSync == Enter("sync", "syncState")

cmdPoll == Enter("poll", "fetchReadyTickets")

cmdCreate == Enter("create", "createTicket")

(* createTicket after resolveDataSourceId; cmdCreate calls it as           *)
(* createTicket(title, area, body, priority, assignee, ticketType), the    *)
(* type being "Story" unless --type is given, and then appends "created"   *)
CreateTicket(args, data) ==
    /\ pc = "create"
    /\ op = "createTicket"
    /\ cmd # "script" => args.sixth = "Story"
    /\ LET r == createTicket(bridge, dataSourceId, args, TARGET_APP, AI_SQUAD_ID, data)
       IN  /\ Returns("createTicket", r, "idle")
           /\ \E now \in Clock :
                file' = IF cmd = "create" /\ ~r.threw
                        THEN appendHistory(file,
                                 HistoryItem(r.value[1].id, r.value[1].title, "created", now))
                        ELSE file
    /\ op' = "none"
    /\ UNCHANGED << TARGET_APP, AI_SQUAD_ID, dataSourceId, remote, pages, cursor,
                    requests, responses, missed, bridge, cmd, procs >>

(* the listing of the remote after a command's write r: the page written *)
(* carries the properties of the accepted PATCH, or the listing does not  *)
(* show the write yet                                                      *)
Reflecting(listing, r) ==
    IF r.threw \/ r.events = << >> THEN { listing }
    ELSE { listing,
           [ i \in DOMAIN listing |->
               IF "/pages/" \o listing[i].id = r.events[1].path
               THEN [ listing[i] EXCEPT !.properties = r.events[1].body.properties @@ @ ]
               ELSE listing[i] ] }

(* cmdStart: updateTicketStatus(ticketId, "In Progress") *)
cmdStartStatus(data) ==
    /\ pc = "main"
    /\ cmd = "start"
    /\ \E now \in Clock :
         LET r == updateTicketStatus(bridge, TicketArg, "In Progress", now, data)
         IN  /\ Returns("updateTicketStatus", r, "start:branch")
             /\ remote' \in Reflecting(remote, r)
    /\ UNCHANGED << TARGET_APP, AI_SQUAD_ID, dataSourceId, file, op, pages,
                    cursor, requests, responses, missed, bridge, cmd, procs >>

(* cmdStart: updateTicketBranch, appendHistory("started"), into syncState *)
cmdStartBranch(data) ==
    /\ pc = "start:branch"
    /\ LET r == updateTicketBranch(TicketArg, "feature/shipyard-t1", data)
       IN  /\ Returns("updateTicketBranch", r, "resolve")
           /\ remote' \in Reflecting(remote, r)
           /\ op' = IF r.threw THEN "none" ELSE "syncState"
           /\ \E now \in Clock :
                file' = IF r.threw THEN file
                        ELSE appendHistory(file,
                                 HistoryItem(TicketArg, "(started)", "started", now))
    /\ UNCHANGED << TARGET_APP, AI_SQUAD_ID, dataSourceId, pages, cursor,
                    requests, responses, missed, bridge, cmd, procs >>

(* cmdDone: updateTicketStatus(ticketId, "Done"), appendHistory("done"),   *)
(* into syncState                                                          *)
cmdDone(data) ==
    /\ pc = "main"
    /\ cmd = "done"
    /\ \E now \in Clock :
         LET r == updateTicketStatus(bridge, TicketArg, "Done", now, data)
         IN  /\ Returns("updateTicketStatus", r, "resolve")
             /\ remote' \in Reflecting(remote, r)
             /\ op' = IF r.threw THEN "none" ELSE "syncState"
             /\ file' = IF r.threw THEN file
                        ELSE appendHistory(file,
                                 HistoryItem(TicketArg, "(done)", "done", now))
    /\ UNCHANGED << TARGET_APP, AI_SQUAD_ID, dataSourceId, pages, cursor,
                    requests, responses, missed, bridge, cmd, procs >>

(* cmdGet: fetchTicketDetails(ticketId) *)
cmdGet(pageData, blocksData) ==
    /\ pc = "main"
    /\ cmd = "get"
    /\ Returns("fetchTicketDetails",
               fetchTicketDetails(TicketArg, AI_SQUAD_ID, pageData, blocksData), "idle")
    /\ UNCHANGED << TARGET_APP, AI_SQUAD_ID, dataSourceId, remote, file, op, pages,
                    cursor, requests, responses, missed, bridge, cmd, procs >>

(* the CLI steps that write to the remote, answered with `data` *)
CliWritesWith(data) ==
    cmdStartStatus(data) \/ cmdStartBranch(data) \/ cmdDone(data)

(* a script calls mutation function f, which ends with result r *)
ScriptCall(f, r) ==
    /\ pc = "idle"
    /\ cmd = "script"
    /\ Len(log) < MaxLog
    /\ Returns(f, r, "idle")
    /\ UNCHANGED << TARGET_APP, AI_SQUAD_ID, dataSourceId, remote, file, op, pages,
                    cursor, requests, responses, missed, bridge, cmd, procs >>

CallUpdateTicketStatus(pageId, status, now, data) ==
    ScriptCall("updateTicketStatus",
               updateTicketStatus(bridge, pageId, status, now, data))

(* createTicket called by a script: up to its first remote call *)
CallCreateTicket ==
    /\ pc = "idle"
    /\ cmd = "script"
    /\ Len(log) < MaxLog
    /\ op' = "createTicket"
    /\ pc' = "resolve"
    /\ UNCHANGED << TARGET_APP, AI_SQUAD_ID, dataSourceId, remote, file, pages,
                    cursor, requests, responses, done, missed, bridge, cmd, log,
                    procs >>

(* the arguments a script calls the mutation functions with *)
StatusArgs == {"Open", "In Progress", "Review AI Fix", "Done"}

(* a script calls one of the update functions; the remote answers the    *)
(* write, if one is made, with `data`.  The last five are exported by    *)
(* notion-bridge.ts alone.                                                *)
ScriptWritesWith(data) ==
    \/ \E status \in StatusArgs, now \in Clock :
         CallUpdateTicketStatus(TicketArg, status, now, data)
    \/ ScriptCall("updateTicketBranch",
                  updateTicketBranch(TicketArg, "feature/shipyard-t1", data))
    \/ \E blockedBy, blocks \in { << >>, << << >> >>, << << "t2" >> >> } :
         ScriptCall("updateTicketDependencies",
                    updateTicketDependencies(TicketArg, blockedBy, blocks, data))
    \/ \E assigneeName \in {"Marco Lanzi", "Nobody", "constructor"} :
         ScriptCall("updateTicketAssignee",
                    updateTicketAssignee(bridge, TicketArg, assigneeName, data))
    \/ /\ bridge = "notion-bridge.ts"
       /\ \/ ScriptCall("updateTicketType", updateTicketType(TicketArg, "Bug", data))
          \/ ScriptCall("updateTicketCommit",
                        updateTicketCommit(TicketArg, "abc1234", data))
          \/ ScriptCall("updateTicketFeature",
                        updateTicketFeature(TicketArg, "Sync", data))
          \/ \E options \in [ status : {NULL, "In Review", "Done"},
                               commit : {NULL, "abc1234"},
                               feature : {NULL, "Sync"} ], now \in Clock :
               ScriptCall("updateTicketCompletion",
                          updateTicketCompletion(TicketArg, options, now, data))
          \/ ScriptCall("deleteTicket", deleteTicket(TicketArg, data))

NextCli ==
    \/ cmdSync
    \/ cmdPoll
    \/ cmdCreate
    \/ \E data \in WriteResponses : CliWritesWith(data)
    \/ \E pageData \in { ErrorObject, PageOpen } :
         \E blocksData \in { ErrorObject, List(<< >>, FALSE, NULL) } :
           cmdGet(pageData, blocksData)
    \/ \E data \in WriteResponses : ScriptWritesWith(data)
    \/ CallCreateTicket
    \/ ResolveDataSourceId
    \/ \E args \in CreateArgs :
         \E data \in CreateResponses(createPayload(bridge, dataSourceId, args,
                                                    TARGET_APP, AI_SQUAD_ID)) :
           CreateTicket(args, data)
    \/ QueryPage
    \/ SyncStateFinish
    \/ FetchReadyTicketsFinish

SpecCli == InitCli /\ [][NextCli]_vars

(* A script sets the status of ticket t1, which the remote holds in any *)
(* of the seven statuses, and creates tickets.                           *)

ShipyardStatus ==
    {"Open", "In Progress", "On hold", "In Review", "Review AI Fix", "Done",
     "Blocked by human"}

SpecStatus ==
    /\ bridge \in {"notion-bridge.ts", "part_001"}
    /\ TARGET_APP = "X"
    /\ AI_SQUAD_ID = "ai"
    /\ cmd = "script"
    /\ remote \in { << RawPage([ FullProperties EXCEPT !["Status"] = Status(current) ]) >> :
                      current \in ShipyardStatus }
    /\ file = Absent
    /\ dataSourceId = NULL
    /\ pc = "idle"
    /\ op = "none"
    /\ pages = << >>
    /\ cursor = NULL
    /\ requests = << >>
    /\ responses = << >>
    /\ done = Outcome("none", FALSE, "", << >>)
    /\ missed = {}
    /\ log = << >>
    /\ procs = << >>
    /\ [][ \/ \E status \in ShipyardStatus, now \in Clock, data \in WriteResponses :
                CallUpdateTicketStatus(TicketArg, status, now, data)
           \/ CallCreateTicket
           \/ ResolveDataSourceId
           \/ \E args \in CreateArgs :
                \E data \in CreateResponses(createPayload(bridge, dataSourceId, args,
                                                           TARGET_APP, AI_SQUAD_ID)) :
                  CreateTicket(args, data) ]_vars

(* The commands that only fetch, --sync and --poll, run to their end: an *)
(* awaited request is answered, and the loop then takes its next turn.   *)
SpecFetch ==
    /\ InitCli
    /\ [][ \/ cmdSync
           \/ cmdPoll
           \/ ResolveDataSourceId
           \/ QueryPage
           \/ SyncStateFinish
           \/ FetchReadyTicketsFinish ]_vars
    /\ WF_vars(QueryPage)

----------------------------------------------------------------------------
(* createTicket with bodies around the multiples of the block size.  The  *)
(* units of a body are numbered, so that every unit is told from the      *)
(* others.                                                                 *)

MaxBlocks == 3      \* bodies reach this many full blocks, and a little more

BodyArgs ==
    [ title : {<< "New ", "ticket" >>}, area : {"Backend"},
      body : { [ i \in 1..len |-> i ] :
                 len \in { len \in 0..(MaxBlocks * BLOCK_SIZE + 2) :
                             \/ len % BLOCK_SIZE \in {0, 1, 2, BLOCK_SIZE - 1}
                             \/ len = 2 * BLOCK_SIZE + 500 } },
      priority : {"P0"}, assignee : {NULL}, sixth : {"Story"} ]

SpecChunk ==
    /\ InitCli
    /\ [][ \/ cmdCreate
           \/ CallCreateTicket
           \/ ResolveDataSourceId
           \/ \E args \in BodyArgs :
                \E data \in CreateResponses(createPayload(bridge, dataSourceId, args,
                                                           TARGET_APP, AI_SQUAD_ID)) :
                  CreateTicket(args, data) ]_vars

----------------------------------------------------------------------------
(* CoreMapClient: resolveVendor and resolveBrand.  An entity is told by   *)
(* its core id.  What supabase.functions.invoke does with a request is    *)
(* one of: throw (an Error or something else), resolve to an error, or    *)
(* resolve to the body of the function's answer (absent when the answer   *)
(* carries none).                                                          *)

(* resolve() without its test of the invocation's error *)
resolveUnchecked(answer) ==
    IF "thrown" \in DOMAIN answer
    THEN [ data |-> NULL, error |-> answer.thrown ]
    ELSE [ data |-> IF "data" \in DOMAIN answer /\ "data" \in DOMAIN answer.data
                    THEN answer.data.data ELSE NULL,
           error |-> NULL ]

(* CoreMapClient.resolve: the ResolveResult of one invocation (its        *)
(* mappings left out)                                                      *)
resolve(answer) ==
    IF "thrown" \in DOMAIN answer
    THEN [ data |-> NULL,
           error |-> IF answer.instanceofError THEN answer.thrown ELSE "Unknown error" ]
    ELSE IF "error" \in DOMAIN answer
    THEN [ data |-> NULL, error |-> answer.error ]
    ELSE [ data |-> IF "data" \in DOMAIN answer /\ "data" \in DOMAIN answer.data
                    THEN answer.data.data ELSE NULL,
           error |-> IF "data" \in DOMAIN answer /\ "error" \in DOMAIN answer.data
                        /\ Truthy(answer.data.error)
                     THEN answer.data.error ELSE NULL ]

(* one lookup of resolveVendor / resolveBrand: slug, then domain, then    *)
(* name; the function returns at the first truthy result.data and after   *)
(* the third lookup                                                        *)
ResolveEntity ==
    /\ pc = "lookup"
    /\ \E answer \in
           { [ thrown |-> "fetch failed", instanceofError |-> TRUE ],
             [ thrown |-> "aborted", instanceofError |-> FALSE ],
             [ error |-> "Edge Function returned a non-2xx status code" ],
             [ error |-> "Relay error", data |-> [ data |-> "core-1", error |-> NULL ] ],
             [ none |-> TRUE ],
             [ data |-> [ data |-> NULL, error |-> "Entity not found" ] ],
             [ data |-> [ data |-> "core-1", error |-> NULL ] ],
             [ data |-> [ data |-> "core-2", error |-> NULL ] ] } :
         LET nth == Len(requests) + 1
             result == resolve(answer)
         IN  /\ requests' = Append(requests,
                              [ entity_type |-> IF op = "resolveVendor" THEN "vendor"
                                                ELSE "brand",
                                lookup_by |-> << "slug", "domain", "name" >>[nth],
                                lookup_value |-> cursor ])
             /\ responses' = Append(responses, answer)
             /\ IF Truthy(result.data) \/ nth = 3
                THEN /\ done' = Outcome(op, FALSE, "", << result.data >>)
                     /\ pc' = "idle"
                ELSE UNCHANGED << done, pc >>
    /\ UNCHANGED << TARGET_APP, AI_SQUAD_ID, dataSourceId, remote, file, op, pages,
                    cursor, missed, bridge, cmd, log, procs >>

SpecCoreMap ==
    /\ TARGET_APP = "X"
    /\ AI_SQUAD_ID = ""
    /\ dataSourceId = NULL
    /\ remote = << >>
    /\ file = Absent
    /\ pc = "lookup"
    /\ op \in {"resolveVendor", "resolveBrand"}
    /\ pages = << >>
    /\ cursor \in {"salesforce", "salesforce.com"}
    /\ requests = << >>
    /\ responses = << >>
    /\ done = Outcome("none", FALSE, "", << >>)
    /\ missed = {}
    /\ bridge = "coreMapClient.ts"
    /\ cmd = "none"
    /\ log = << >>
    /\ procs = << >>
    /\ [][ResolveEntity]_vars


----------------------------------------------------------------------------
(* Data-source resolution over every listing of up to three of four       *)
(* sources, two of them with "Tickets" in their name, over the error      *)
(* answer and over a database object without data_sources.  The answer is *)
(* kept in responses.                                                      *)
SpecSources ==
    /\ TARGET_APP = "X"
    /\ AI_SQUAD_ID \in {"", "ai"}
    /\ dataSourceId = NULL
    /\ remote = << >>
    /\ file = Absent
    /\ pc = "idle"
    /\ op = "none"
    /\ pages = << >>
    /\ cursor = NULL
    /\ requests = << >>
    /\ responses = << >>
    /\ done = Outcome("none", FALSE, "", << >>)
    /\ missed = {}
    /\ bridge \in {"notion-bridge.ts", "part_001"}
    /\ cmd = "script"
    /\ log = << >>
    /\ procs = << >>
    /\ [][ \/ Len(log) < MaxLog /\ CallSyncState
           \/ Len(log) < MaxLog /\ CallFetchReadyTickets
           \/ LET sources == { [id |-> "ds1", name |-> << "Capabl", "OS", "Docs" >>],
                               [id |-> "ds2", name |-> << "Capabl", "OS", "Tickets" >>],
                               [id |-> "ds3", name |-> << "Archive" >>],
                               [id |-> "ds4", name |-> << "Tickets", "Archive" >>] }
                  listings == { list \in UNION { [1..n -> sources] : n \in 0..3 } :
                                  \A i, j \in DOMAIN list : list[i] = list[j] => i = j }
              IN  \E data \in {ErrorObject, [object |-> "database"]}
                                \cup { Database(list) : list \in listings } :
                    resolveDataSourceId(data) /\ responses' = << data >> ]_vars


----------------------------------------------------------------------------
(* cmdSync: the items it prints after syncState has returned, in the      *)
(* order printed: the queue grouped by status, the groups in the order of *)
(* statusOrder                                                             *)
printed(queue) ==
    LET statusOrder == << "In Progress", "In Review", "Open", "On hold",
                          "Blocked by human" >>
        items(status) == SelectSeq(queue, LAMBDA item : item.status = status)
    IN  items(statusOrder[1]) \o items(statusOrder[2]) \o items(statusOrder[3])
          \o items(statusOrder[4]) \o items(statusOrder[5])

(* --sync over a listing of two tickets of the application, eligible, in  *)
(* any two of the seven statuses                                           *)
SpecSync ==
    /\ bridge = "part_001"
    /\ TARGET_APP = "X"
    /\ AI_SQUAD_ID = "ai"
    /\ cmd = "sync"
    /\ remote \in { << RawPage([ FullProperties EXCEPT !["Status"] = Status(first) ]),
                        [ RawPage([ FullProperties EXCEPT !["Status"] = Status(second) ])
                            EXCEPT !.id = "t2" ] >> :
                      first \in ShipyardStatus, second \in ShipyardStatus }
    /\ file = Absent
    /\ dataSourceId = NULL
    /\ pc = "main"
    /\ op = "none"
    /\ pages = << >>
    /\ cursor = NULL
    /\ requests = << >>
    /\ responses = << >>
    /\ done = Outcome("none", FALSE, "", << >>)
    /\ missed = {}
    /\ log = << >>
    /\ procs = << >>
    /\ [][cmdSync \/ ResolveDataSourceId \/ QueryPage \/ SyncStateFinish]_vars

----------------------------------------------------------------------------
(* One syncState, with appendHistory called by another task of the        *)
(* process while the fetch is awaited: before the resolution, between two *)
(* page requests, or when the last page has come.                          *)
SpecAwait ==
    /\ TARGET_APP = "X"
    /\ AI_SQUAD_ID = "ai"
    /\ dataSourceId = NULL
    /\ remote \in { << >>, << PageBlocked, PageOpen >> }
    /\ file \in InitialFiles
    /\ pc = "idle"
    /\ op = "none"
    /\ pages = << >>
    /\ cursor = NULL
    /\ requests = << >>
    /\ responses = << >>
    /\ done = Outcome("none", FALSE, "", << >>)
    /\ missed = {}
    /\ bridge \in {"notion-bridge.ts", "part_001"}
    /\ cmd = "none"
    /\ log = << >>
    /\ procs = << >>
    /\ [][ \/ done.op = "none" /\ CallSyncState
           \/ ResolveDataSourceId
           \/ QueryPage
           \/ SyncStateFinish
           \/ AppendHistoryAt({"resolve", "query", "fetched"}) ]_vars

----------------------------------------------------------------------------
(* Properties *)

Last(s) == s[Len(s)]

IsPrefix(s, t) == Len(s) <= Len(t) /\ SubSeq(t, 1, Len(s)) = s

(* response k of the traversal signals more results and names a cursor *)
SignalsMore(k) ==
    /\ responses[k].object = "list"
    /\ responses[k].has_more
    /\ responses[k].next_cursor \notin {NULL, ""}

ResultsInOrder ==
    Flatten([ k \in 1..Len(responses) |-> responses[k].results ])

(* C1: a traversal that has returned took exactly as many requests as     *)
(* there are responses up to the first one without a further cursor: the  *)
(* first request carried no start_cursor, request k+1 carried the         *)
(* next_cursor of response k, every response but the last signalled more, *)
(* and the pages returned are the results of all responses in request     *)
(* order; a traversal still running has only seen responses that signal   *)
(* more.                                                                  *)
C1_Pagination ==
    /\ pc = "fetched" =>
         /\ Len(responses) >= 1
         /\ Len(requests) = Len(responses)
         /\ requests[1] = NULL
         /\ \A k \in 1..(Len(responses) - 1) :
              SignalsMore(k) /\ requests[k + 1] = responses[k].next_cursor
         /\ ~SignalsMore(Len(responses))
         /\ pages = ResultsInOrder
    /\ (pc = "query" /\ Len(responses) >= 1) =>
         /\ Len(requests) = Len(responses)
         /\ \A k \in 1..Len(responses) : SignalsMore(k)

(* three requests for the cursors [A, B, null], all pages in order *)
C1_Witness ==
    /\ pc = "fetched"
    /\ Len(requests) = 3
    /\ SignalsMore(1) /\ SignalsMore(2)
    /\ responses[3].has_more = FALSE
    /\ \A k \in 1..3 : responses[k].results # << >>
    /\ pages = remote

(* C2: when a query response is an error object, on the first page or on  *)
(* a later one, the traversal ends there with a failure: no further       *)
(* request follows, the caller gets no page of the earlier responses, and *)
(* the snapshot file is not touched.                                      *)
C2_ErrorAborts ==
    [][ (pc = "query" /\ Len(responses') = Len(responses) + 1
           /\ Last(responses').object = "error")
        => /\ pc' = "idle"
           /\ done'.threw
           /\ done'.error = "Data source query error"
           /\ done'.op \in {"syncState", "fetchReadyTickets"}
           /\ done'.value = << >>
           /\ pages' = << >>
           /\ requests' = Append(requests, startCursor(cursor))
           /\ file' = file ]_vars

(* an error on a later page, after a page had been accumulated *)
C2_Witness ==
    /\ done.threw
    /\ done.error = "Data source query error"
    /\ Len(responses) >= 2
    /\ responses[1].object = "list"
    /\ responses[1].results # << >>
    /\ Last(responses).object = "error"

(* the filter predicate of the active queue, on a raw page *)
Qualifies(page) ==
    LET ticket == extractTicket(page, AI_SQUAD_ID)
    IN  /\ (ticket.application = TARGET_APP \/ TARGET_APP = "")
        /\ ticket.assigned_to_ai_squad
        /\ ticket.status \notin {"Done", "Blocked by human", "On hold"}

QueuedIds(queue) == { queue[i].ticket_id : i \in 1..Len(queue) }

(* C3: the queue syncState writes holds exactly the fetched tickets that  *)
(* are in scope (or the scope is unset), eligible and not Done, Blocked   *)
(* by human or On hold: none that fails, none missing, each once, and     *)
(* nothing of the queue of the snapshot read.                             *)
C3_QueueIsFiltered ==
    [][ SyncStateFinish =>
          LET kept == { i \in 1..Len(pages) : Qualifies(pages[i]) }
          IN  /\ file'.kind = "json"
              /\ QueuedIds(file'.queue) = { pages[i].id : i \in kept }
              /\ Len(file'.queue) = Cardinality(kept)
              /\ \A i \in kept :
                   \E j \in 1..Len(file'.queue) :
                     file'.queue[j] = QueueItem(extractTicket(pages[i], AI_SQUAD_ID)) ]_vars

(* a sync over a stale snapshot that kept one ticket and dropped another *)
C3_Witness ==
    /\ done.op = "syncState" /\ ~done.threw
    /\ Len(remote) = 3
    /\ Len(done.value[1].queue) = 1
    /\ TARGET_APP = "X" /\ AI_SQUAD_ID = "ai"
    /\ done.value[1].queue = file.queue
    /\ StaleItem \notin Range(file.queue)
    /\ missed = {}

Blocked01(item) == IF item.blocked_by = << >> THEN 0 ELSE 1

PriorityNumber(item) ==
    CASE item.priority = "P0" -> 0
      [] item.priority = "P1" -> 1
      [] item.priority = "P2" -> 2
      [] item.priority = "P3" -> 3
      [] item.priority = "P4" -> 4
      [] item.priority = NULL -> 4

KeyLeq(a, b) ==
    \/ Blocked01(a) < Blocked01(b)
    \/ Blocked01(a) = Blocked01(b) /\ PriorityNumber(a) <= PriorityNumber(b)

IsSorted(q) == \A i, j \in 1..Len(q) : i < j => KeyLeq(q[i], q[j])

(* C4: the queue syncState writes and the tickets fetchReadyTickets       *)
(* returns are sorted under the two-key order: for i < j,                 *)
(* (blocked(i), priority(i)) <= (blocked(j), priority(j)), a missing      *)
(* priority counting as P4.                                               *)
C4_Sorted ==
    /\ file.kind = "json" => IsSorted(file.queue)
    /\ (done.op = "fetchReadyTickets" /\ ~done.threw) => IsSorted(done.value)

(* a queue of three: not blocked with no priority, after P0, before blocked *)
C4_Witness ==
    /\ file.kind = "json"
    /\ Len(file.queue) = 3
    /\ file.queue[1].priority = "P0" /\ file.queue[1].blocked_by = << >>
    /\ file.queue[2].priority = NULL /\ file.queue[2].blocked_by = << >>
    /\ file.queue[3].priority = "P0" /\ file.queue[3].blocked_by # << >>
    /\ file.queue[3].ticket_id = "t1"

(* C5: over syncState and appendHistory calls on a snapshot file that     *)
(* exists and parses, the persisted history only grows at its end: the    *)
(* history before a step is a prefix of the history after it.             *)
C5_HistoryAppendOnly ==
    [][ file.kind = "json" =>
          /\ file'.kind = "json"
          /\ IsPrefix(file.history, file'.history) ]_vars

(* two entries appended, then carried through a sync *)
C5_Witness ==
    /\ done.op = "syncState" /\ ~done.threw
    /\ Len(done.value[1].history) = 2
    /\ done.value[1].history[1] # done.value[1].history[2]
    /\ file.history = done.value[1].history

(* C6: syncState writes the history of the snapshot file it read, same    *)
(* entries in the same order and none of its own; when the file is absent *)
(* or does not parse it writes an empty history, and raises no error.     *)
C6_SyncKeepsHistory ==
    [][ SyncStateFinish =>
          /\ file'.kind = "json"
          /\ "history" \in file'.keys
          /\ file'.history = HistoryOf(file)
          /\ (file.kind \in {"absent", "text"} => file'.history = << >>)
          /\ ~done'.threw ]_vars

(* a sync that carried a history of one entry *)
C6_Witness ==
    /\ done.op = "syncState" /\ ~done.threw
    /\ Len(done.value[1].history) = 1
    /\ file.history = done.value[1].history
    /\ file.queue # << >>

(* C7: appendHistory(entry) on a snapshot that parses, with history h,    *)
(* writes h followed by the entry, unchanged in its four fields, and      *)
(* leaves last_synced and the queue as they were; on an empty history a   *)
(* read of the file then gives a history of length 1 holding the entry.   *)
C7_AppendWritesEntry ==
    [][ (AppendHistory /\ file.kind = "json") =>
          LET entry  == done'.value[1]
              loaded == JSONparse(file').value
          IN  /\ ~JSONparse(file').threw
              /\ loaded.history = Append(HistoryOf(file), entry)
              /\ (HistoryOf(file) = << >> =>
                    Len(loaded.history) = 1 /\ loaded.history[1] = entry)
              /\ loaded.last_synced = file.last_synced
              /\ loaded.queue = file.queue
              /\ file'.keys = file.keys \cup {"history"}
              /\ ~done'.threw ]_vars

(* an entry appended to a synced snapshot that already had one *)
C7_Witness ==
    /\ done.op = "appendHistory"
    /\ file.kind = "json"
    /\ file.last_synced \in Clock
    /\ file.queue # << >>
    /\ Len(file.history) = 2
    /\ file.history[2] = done.value[1]
    /\ file.history[1] # done.value[1]

(* C8 as claimed: on a snapshot file that is not valid JSON,              *)
(* appendHistory(entry) persists a snapshot whose history is [entry].     *)
C8_CorruptBecomesEntry ==
    [][ (AppendHistory /\ file.kind = "text") =>
          /\ file'.kind = "json"
          /\ file'.history = << done'.value[1] >> ]_vars

(* C8: on a snapshot file that is not valid JSON, appendHistory(entry)    *)
(* raises no error and leaves the file as it is: the content that does    *)
(* not parse stays, the entry is not persisted.                           *)
C8_CorruptLeftAlone ==
    [][ (AppendHistory /\ file.kind = "text") =>
          /\ file' = file
          /\ ~done'.threw ]_vars

(* an append met a file that does not parse *)
C8_Witness ==
    /\ done.op = "appendHistory"
    /\ ~done.threw
    /\ file = Corrupt

(* C9: when the snapshot file does not exist, appendHistory(entry) does   *)
(* nothing: no error, no file created, nothing written.                   *)
C9_MissingFileNoOp ==
    [][ (AppendHistory /\ file.kind = "absent") =>
          /\ file' = Absent
          /\ ~done'.threw ]_vars

(* an append met a missing file *)
C9_Witness ==
    /\ done.op = "appendHistory"
    /\ ~done.threw
    /\ file = Absent
    /\ done.value[1] \in missed

(* C10: an entry handed to appendHistory while the snapshot file was      *)
(* missing is in the history that the next syncState persists.            *)
C10_MissedEntryCatchesUp ==
    [][ SyncStateFinish =>
          \A entry \in missed : entry \in Range(file'.history) ]_vars

(* C11: the snapshot file is rewritten without locking, the last writer  *)
(* wins: what an invocation writes is built from what it read, so the     *)
(* history it leaves is the history it read (followed by its own entry    *)
(* for an append), whatever another invocation wrote since the read.      *)
C11_LastWriterWins ==
    [][ \A p \in Invocations :
          (procs[p].pc = "write" /\ procs'[p].pc = "done") =>
            IF procs[p].fn = "syncState"
            THEN HistoryOf(file') = procs[p].history
            ELSE IF procs[p].state.parsed
            THEN HistoryOf(file') = Append(procs[p].state.value.history, procs[p].item)
            ELSE file' = file ]_vars

(* both invocations are over; the entry of one, written between the read  *)
(* and the write of the other, is not in the snapshot                     *)
C11_Witness ==
    \E p, q \in Invocations :
      /\ p # q
      /\ procs[p].pc = "done" /\ procs[q].pc = "done"
      /\ procs[p].fn = "appendHistory" /\ procs[p].state.parsed
      /\ procs[q].fn = "appendHistory" /\ procs[q].state.parsed
      /\ procs[q].state.value.history = procs[p].state.value.history
      /\ file.kind = "json"
      /\ procs[q].item \in Range(file.history)
      /\ procs[p].item \notin Range(file.history)

(* the events a step adds to the log *)
Added == SubSeq(log', Len(log) + 1, Len(log'))

QueryPath == "/data_sources/dsId/query"

IsWrite(e) ==
    /\ e.kind = "request"
    /\ e.method \in {"PATCH", "POST"}
    /\ e.path # QueryPath

IsSleep(e) == e.kind = "sleep" /\ e.ms = 350

WritesIn(events) == Cardinality({ i \in 1..Len(events) : IsWrite(events[i]) })

(* C12: updateTicketStatus(id, s) makes one write that carries Status s   *)
(* and, in that same write, Resolved At if and only if s is Done or       *)
(* Review AI Fix.                                                         *)
C12_ResolvedAtIffResolved ==
    [][ \A status \in StatusArgs, now \in Clock, data \in WriteResponses :
          CallUpdateTicketStatus(TicketArg, status, now, data) =>
            /\ WritesIn(Added) = 1
            /\ IsWrite(Added[1])
            /\ Added[1].path = "/pages/" \o TicketArg
            /\ Added[1].body.properties["Status"] = Status(status)
            /\ ("Resolved At" \in DOMAIN Added[1].body.properties)
                 <=> status \in {"Done", "Review AI Fix"}
            /\ status \in {"Done", "Review AI Fix"} =>
                 Added[1].body.properties["Resolved At"] = Date(now) ]_vars

(* the names updateTicketAssignee is called with: a member of the team, *)
(* a stranger, a member of Object.prototype                              *)
AssigneeNames == {"Marco Lanzi", "Nobody", "constructor"}

(* the failure message of each mutation function *)
FailureOf(f) ==
    CASE f = "updateTicketStatus"       -> "Status update failed"
      [] f = "updateTicketBranch"       -> "Branch update failed"
      [] f = "updateTicketCommit"       -> "Commit update failed"
      [] f = "updateTicketFeature"      -> "Feature update failed"
      [] f = "updateTicketType"         -> "Type update failed"
      [] f = "updateTicketAssignee"     -> "Assignee update failed"
      [] f = "updateTicketDependencies" -> "Dependency update failed"
      [] f = "deleteTicket"             -> "Delete failed"
      [] f = "createTicket"             -> "Ticket creation failed"
      [] OTHER                          -> "?"

(* the nine operations: status, branch, commit, feature, type, assignee,  *)
(* dependency update, archive, creation                                   *)
NineOperations ==
    {"updateTicketStatus", "updateTicketBranch", "updateTicketCommit",
     "updateTicketFeature", "updateTicketType", "updateTicketAssignee",
     "updateTicketDependencies", "deleteTicket", "createTicket"}

(* a step in which a call of a mutation function ends, the remote         *)
(* answering its write, if it makes one, with `data`                      *)
AnyMutationEnds(data) ==
    \/ ScriptWritesWith(data)
    \/ CliWritesWith(data)
    \/ \E args \in CreateArgs : CreateTicket(args, data)

(* the same for the nine operations *)
MutationEnds(data) == AnyMutationEnds(data) /\ done'.op \in NineOperations

(* createTicket ends in resolveDataSourceId, which threw *)
CreationEndsUnresolved ==
    /\ ResolveDataSourceId
    /\ op = "createTicket"
    /\ pc' = "idle"

MutationAnswers ==
    WriteResponses
    \cup UNION { CreateResponses(createPayload(bridge, dataSourceId, args,
                                               TARGET_APP, AI_SQUAD_ID)) :
                   args \in CreateArgs }

(* C13 as claimed: every call of a mutation operation makes exactly one   *)
(* remote write attempt.                                                  *)
C13_ExactlyOneWrite ==
    [][ /\ \A data \in MutationAnswers :
             MutationEnds(data) => WritesIn(Added) = 1
        /\ CreationEndsUnresolved => WritesIn(Added) = 1 ]_vars

(* C13: a call of a mutation operation makes at most one remote write     *)
(* attempt, and exactly one unless it ends before the write:              *)
(* updateTicketDependencies with neither relation given returns without   *)
(* writing; updateTicketAssignee for an unknown name, and createTicket    *)
(* when the data-source resolution fails or no application name is there, *)
(* throw without writing.  When the answer to the write is not a success  *)
(* the call throws the failure that names the operation, and nothing      *)
(* further is sent.                                                       *)
C13_AtMostOneWrite ==
    [][ /\ \A data \in MutationAnswers :
             MutationEnds(data) =>
               /\ WritesIn(Added) <= 1
               /\ WritesIn(Added) = 0 =>
                    \/ done'.op = "updateTicketDependencies" /\ ~done'.threw
                    \/ /\ done'.op = "updateTicketAssignee" /\ done'.threw
                       /\ done'.error \in
                            { "Unknown team member " \o name : name \in AssigneeNames }
                    \/ /\ done'.op = "createTicket" /\ done'.threw
                       /\ done'.error =
                            "TARGET_APP is not set and no application was provided"
               /\ WritesIn(Added) = 1 =>
                    /\ IsWrite(Added[1])
                    /\ IF isError(data) \/ (done'.op = "createTicket" /\ ~hasId(data))
                       THEN /\ done'.threw
                            /\ done'.error = FailureOf(done'.op)
                            /\ Len(Added) = 1
                       ELSE ~done'.threw
        /\ CreationEndsUnresolved =>
             /\ WritesIn(Added) = 0
             /\ done'.error \in {"Failed to resolve data sources",
                                 "No data sources found on Shipyard database"} ]_vars

(* a write was answered with an error: the call threw, one request in all *)
C13_Witness ==
    /\ cmd = "script"
    /\ done.op = "deleteTicket"
    /\ done.threw
    /\ done.error = "Delete failed"
    /\ Len(log) = 1
    /\ IsWrite(log[1])

(* the answer is a success: no error object, and for a creation an id *)
Succeeds(f, data) == ~isError(data) /\ (f = "createTicket" => hasId(data))

(* C14: a mutation function whose write succeeds sleeps RATE_LIMIT_DELAY   *)
(* after the write and before it returns: the write is followed at once   *)
(* by the delay, and only then does the caller go on.                     *)
C14_SleepAfterWrite ==
    [][ \A data \in MutationAnswers :
          (AnyMutationEnds(data) /\ WritesIn(Added) >= 1 /\ Succeeds(done'.op, data)) =>
            /\ ~done'.threw
            /\ Len(Added) = 2
            /\ IsWrite(Added[1])
            /\ Added[2] = sleep(RATE_LIMIT_DELAY)
            /\ IsSleep(Added[2]) ]_vars

(* cmdStart after its two writes: each was followed by the delay *)
C14_Witness ==
    /\ cmd = "start"
    /\ pc = "resolve"
    /\ Len(log) = 4
    /\ IsWrite(log[1]) /\ IsSleep(log[2])
    /\ IsWrite(log[3]) /\ IsSleep(log[4])

IsQuery(e) == e.kind = "request" /\ e.path = QueryPath

(* the log from the first listing request on *)
TraversalLog ==
    LET queries == { i \in 1..Len(log) : IsQuery(log[i]) }
    IN  IF queries = {} THEN << >>
        ELSE SubSeq(log, CHOOSE i \in queries : \A j \in queries : i <= j, Len(log))

(* requests and delays alternate, a request first *)
Alternates(events) ==
    \A i \in 1..Len(events) :
      IF i % 2 = 1 THEN IsQuery(events[i]) ELSE events[i] = sleep(350)

(* C15: within one traversal of fetchAllShipyardPages a delay of           *)
(* RATE_LIMIT_DELAY = 350 ms lies between every two consecutive listing   *)
(* requests, after each response that signals more and before the next    *)
(* request, and no delay follows the response that ends the traversal.    *)
C15_DelayBetweenPages ==
    /\ RATE_LIMIT_DELAY = 350
    /\ pc \in {"query", "fetched"} => Alternates(TraversalLog)
    /\ pc = "fetched" => Len(TraversalLog) = 2 * Len(requests) - 1
    /\ pc = "query" => Len(TraversalLog) = 2 * Len(requests)
    /\ (pc = "idle" /\ done.threw /\ done.error = "Data source query error") =>
         /\ Alternates(TraversalLog)
         /\ IsQuery(Last(log))

(* a traversal of three requests: two delays, none after the last response *)
C15_Witness ==
    /\ pc = "fetched"
    /\ Len(requests) = 3
    /\ Len(TraversalLog) = 5
    /\ IsSleep(TraversalLog[2]) /\ IsSleep(TraversalLog[4])
    /\ IsQuery(Last(log))

(* C16: within one CLI invocation any two consecutive remote requests are *)
(* separated by at least one rate-limit delay.                            *)
C16_RequestsSpaced ==
    cmd \in Commands =>
      \A i \in 1..(Len(log) - 1) :
        log[i].kind = "request" => IsSleep(log[i + 1])

TicketIds(tickets) == [ i \in 1..Len(tickets) |-> tickets[i].id ]

QueueIds(queue) == [ i \in 1..Len(queue) |-> queue[i].ticket_id ]

RECURSIVE OpenOnly(_)
OpenOnly(queue) ==
    IF queue = << >> THEN << >>
    ELSE (IF Head(queue).status = "Open" THEN << Head(queue) >> ELSE << >>)
         \o OpenOnly(Tail(queue))

(* C17: over the same fetched pages and configuration, fetchReadyTickets  *)
(* returns the tickets of the queue syncState builds whose status is      *)
(* "Open", no other, in the order they have in that queue.                *)
C17_ReadyIsOpenOfQueue ==
    [][ FetchReadyTicketsFinish =>
          TicketIds(done'.value)
            = QueueIds(OpenOnly(newState(file, pages, TARGET_APP, AI_SQUAD_ID,
                                         "2026-01-04T10:00:00.000Z").queue)) ]_vars

(* two ready tickets out of three fetched, the third In Progress *)
C17_Witness ==
    /\ done.op = "fetchReadyTickets"
    /\ ~done.threw
    /\ Len(done.value) = 2
    /\ done.value[1].id = "t3" /\ done.value[2].id = "t1"
    /\ TARGET_APP = "X"

(* the place of a page in the remote listing *)
ListingIndex(id) == CHOOSE k \in 1..Len(PageIds) : PageIds[k] = id

SameKey(a, b) ==
    /\ Blocked01(a) = Blocked01(b)
    /\ PriorityNumber(a) = PriorityNumber(b)

(* C18: the ordering is stable: two tickets with the same blocked state    *)
(* and the same effective priority (null counted as P4) come out in the   *)
(* order they have in the remote listing, in the queue of syncState and   *)
(* in the result of fetchReadyTickets.                                    *)
C18_Stable ==
    /\ file.kind = "json" =>
         \A i, j \in 1..Len(file.queue) :
           (i < j /\ SameKey(file.queue[i], file.queue[j])) =>
             ListingIndex(file.queue[i].ticket_id) < ListingIndex(file.queue[j].ticket_id)
    /\ (done.op = "fetchReadyTickets" /\ ~done.threw) =>
         \A i, j \in 1..Len(done.value) :
           (i < j /\ SameKey(done.value[i], done.value[j])) =>
             ListingIndex(done.value[i].id) < ListingIndex(done.value[j].id)

(* the third page listed is sorted first; the first two tie, one with no  *)
(* priority and one with P4, and keep their listing order                 *)
C18_Witness ==
    /\ file.kind = "json"
    /\ QueueIds(file.queue) = << "t3", "t1", "t2" >>
    /\ file.queue[2].priority = NULL
    /\ file.queue[3].priority = "P4"
    /\ SameKey(file.queue[2], file.queue[3])

(* the raw page handed to extractTicket and the ticket it returned *)
Extracted == done.op = "extractTicket"

RawProperty(key) ==
    IF "properties" \in DOMAIN pages[1] /\ key \in DOMAIN pages[1].properties
    THEN << pages[1].properties[key] >>
    ELSE << >>

(* the raw Assignee is a people field that lists the id *)
ListsAssignee(id) ==
    /\ RawProperty("Assignee") # << >>
    /\ RawProperty("Assignee")[1].type = "people"
    /\ \E i \in 1..Len(RawProperty("Assignee")[1].ids) :
         RawProperty("Assignee")[1].ids[i] = id

(* C19: assigned_to_ai_squad of the ticket is true if and only if no       *)
(* acting identity is configured or the Assignee of the page lists the    *)
(* configured id; with an identity configured, a page whose Assignee is   *)
(* absent, empty or of another type gives a ticket that is not eligible.  *)
C19_Eligible ==
    Extracted =>
      /\ done.value[1].assigned_to_ai_squad
           <=> (AI_SQUAD_ID = "" \/ ListsAssignee(AI_SQUAD_ID))
      /\ ( /\ AI_SQUAD_ID # ""
           /\ \/ RawProperty("Assignee") = << >>
              \/ RawProperty("Assignee")[1].type # "people"
              \/ RawProperty("Assignee")[1].ids = << >> )
           => ~done.value[1].assigned_to_ai_squad

(* an identity is configured and the Assignee is a select naming it *)
C19_Witness ==
    /\ Extracted
    /\ AI_SQUAD_ID = "ai"
    /\ RawProperty("Assignee") = << Select("ai") >>
    /\ ~done.value[1].assigned_to_ai_squad

(* the property is absent from the page or carries no value *)
Missing(key) ==
    \/ RawProperty(key) = << >>
    \/ RawProperty(key) = << EmptyProperties[key] >>

(* the attributes that default to null, with the property each is read from *)
NullDefaults ==
    { << "Summary", "summary" >>, << "Spec URL", "spec_url" >>, << "Due", "due" >>,
      << "Branch", "branch" >>, << "Area", "area" >>,
      << "Application", "application" >>, << "Type", "type" >>,
      << "Priority", "priority" >> }

(* C20: for every raw page and every optional field missing from it, also *)
(* for a page with no properties map, extractTicket does not raise and    *)
(* the attribute has its neutral default: title "(untitled)", status      *)
(* "Open", null for summary, spec_url, due, branch, area, application,    *)
(* type and priority, the empty sequence for blocked_by and blocks.       *)
C20_Defaults ==
    Extracted =>
      /\ ~done.threw
      /\ Len(done.value) = 1
      /\ Missing("Ticket") => done.value[1].title = "(untitled)"
      /\ Missing("Status") => done.value[1].status = "Open"
      /\ \A d \in NullDefaults :
           Missing(d[1]) => done.value[1][d[2]] = NULL
      /\ Missing("Dependency") => done.value[1].blocked_by = << >>
      /\ Missing("Blocks ") => done.value[1].blocks = << >>

(* a page with no properties map at all gave a ticket of defaults *)
C20_Witness ==
    /\ Extracted
    /\ "properties" \notin DOMAIN pages[1]
    /\ done.value[1].id = "t1"
    /\ done.value[1].title = "(untitled)"
    /\ done.value[1].status = "Open"
    /\ done.value[1].priority = NULL
    /\ done.value[1].blocks = << >>

(* C21: the status of every ticket extractTicket produces is one of the *)
(* seven values of ShipyardStatus; a remote Status outside them does not *)
(* crash extraction and becomes "Open".                                   *)
C21_StatusInEnum ==
    ( /\ Extracted
      /\ \A key \in DOMAIN FullProperties \ {"Status"} :
           RawProperty(key) = << FullProperties[key] >> ) =>
      /\ ~done.threw
      /\ done.value[1].status \in ShipyardStatus

(* the type tags the extractor applied to each property accepts *)
Accepts ==
    [ key \in {"Ticket", "Summary", "Branch"} |-> {"rich_text", "title"} ]
    @@ [ key \in {"Status", "Type", "Priority"} |-> {"select", "status"} ]
    @@ [ key \in {"Area", "Application"} |-> {"multi_select", "select"} ]
    @@ [ key \in {"Dependency", "Blocks "} |-> {"relation"} ]
    @@ ("Spec URL" :> {"url"}) @@ ("Due" :> {"date"}) @@ ("Assignee" :> {"people"})

(* the property is absent, carries a type tag its extractor does not     *)
(* accept, or carries the tag with a payload that is missing, of the     *)
(* wrong shape, or a list holding a null element                         *)
Malformed(key) ==
    \/ RawProperty(key) = << >>
    \/ LET prop == RawProperty(key)[1]
       IN  \/ prop.type \notin Accepts[key]
           \/ DOMAIN prop = {"type"}
           \/ "other" \in DOMAIN prop
           \/ \E list \in DOMAIN prop \cap {"text", "names", "ids"} :
                NULL \in Range(prop[list])

(* C22: no extractor raises, and for a property that is absent, of       *)
(* another type tag, or of the right tag with a payload that is missing, *)
(* null or of the wrong shape, the extractor returns its neutral         *)
(* default: the attribute of the ticket is null (the title "(untitled)", *)
(* the status "Open"), the relations are empty, no assignee is seen.     *)
C22_ExtractorsNeverRaise ==
    Extracted =>
      /\ ~done.threw
      /\ Malformed("Ticket") => done.value[1].title = "(untitled)"
      /\ Malformed("Status") => done.value[1].status = "Open"
      /\ \A d \in NullDefaults :
           Malformed(d[1]) => done.value[1][d[2]] = NULL
      /\ Malformed("Dependency") => done.value[1].blocked_by = << >>
      /\ Malformed("Blocks ") => done.value[1].blocks = << >>
      /\ Malformed("Assignee") /\ AI_SQUAD_ID # "" =>
           ~done.value[1].assigned_to_ai_squad

(* the arguments of updateTicketDependencies: << >> for an omitted one, *)
(* << ids >> for a supplied one                                          *)
Relations == { << >>, << << >> >>, << << "t2" >> >> }

(* C23: updateTicketDependencies writes Dependency if and only if        *)
(* blockedBy is supplied, and with the ids supplied (none clears it); it *)
(* writes "Blocks " if and only if blocks is supplied, likewise; nothing *)
(* else is in the write; with both omitted it makes no request at all.   *)
C23_RelationsIndependent ==
    [][ \A blockedBy \in Relations, blocks \in Relations, data \in WriteResponses :
          ScriptCall("updateTicketDependencies",
                     updateTicketDependencies(TicketArg, blockedBy, blocks, data)) =>
            IF blockedBy = << >> /\ blocks = << >>
            THEN Added = << >> /\ ~done'.threw
            ELSE /\ WritesIn(Added) = 1
                 /\ IsWrite(Added[1])
                 /\ Added[1].method = "PATCH"
                 /\ Added[1].path = "/pages/" \o TicketArg
                 /\ DOMAIN Added[1].body = {"properties"}
                 /\ DOMAIN Added[1].body.properties =
                      (IF blockedBy # << >> THEN {"Dependency"} ELSE {})
                      \cup (IF blocks # << >> THEN {"Blocks "} ELSE {})
                 /\ blockedBy # << >> =>
                      Added[1].body.properties["Dependency"] = Relation(blockedBy[1])
                 /\ blocks # << >> =>
                      Added[1].body.properties["Blocks "] = Relation(blocks[1]) ]_vars

(* blocks was cleared by a call that left blocked_by out of the write *)
C23_Witness ==
    /\ done.op = "updateTicketDependencies"
    /\ ~done.threw
    /\ Len(log) = 2
    /\ IsWrite(log[1])
    /\ log[1].body.properties = ("Blocks " :> Relation(<< >>))

(* the texts of the content blocks of a creation request *)
BlockTexts(request) ==
    IF "children" \in DOMAIN request.body
    THEN [ k \in 1..Len(request.body.children) |->
             request.body.children[k].rich_text[1] ]
    ELSE << >>

(* C24: createTicket sends a body of length L as ceil(L / 2000) content  *)
(* blocks in the original order, each of at most 2000 units and all but  *)
(* the last of exactly 2000, whose texts concatenated give the body; a   *)
(* body of 4500 gives 3 blocks, an absent or empty body no blocks.       *)
C24_Chunks ==
    [][ \A args \in BodyArgs :
          \A data \in CreateResponses(createPayload(bridge, dataSourceId, args,
                                                     TARGET_APP, AI_SQUAD_ID)) :
            CreateTicket(args, data) /\ Added # << >> =>
              LET texts == BlockTexts(Added[1])
                  L == Len(args.body)
              IN  /\ Added[1].method = "POST" /\ Added[1].path = "/pages"
                  /\ Len(texts) = (L + BLOCK_SIZE - 1) \div BLOCK_SIZE
                  /\ \A k \in 1..Len(texts) :
                       /\ Len(texts[k]) <= BLOCK_SIZE
                       /\ k < Len(texts) => Len(texts[k]) = BLOCK_SIZE
                  /\ Flatten(texts) = args.body
                  /\ L = 4500 => Len(texts) = 3
                  /\ L = 0 => "children" \notin DOMAIN Added[1].body ]_vars

(* a body of 4500 units went out as blocks of 2000, 2000 and 500 *)
C24_Witness ==
    /\ done.op = "createTicket"
    /\ ~done.threw
    /\ \E i \in 1..Len(log) :
         /\ IsWrite(log[i])
         /\ Len(BlockTexts(log[i])) = 3
         /\ Len(BlockTexts(log[i])[1]) = 2000
         /\ Len(BlockTexts(log[i])[3]) = 500
         /\ BlockTexts(log[i])[3][500] = 4500

(* C25: createTicket called with neither an application argument nor a *)
(* configured TARGET_APP fails before any remote call: when a call has  *)
(* ended with that failure, the log holds no request of it, that is, no *)
(* database lookup other than those of creations that went on to send   *)
(* their page.                                                          *)
C25_FailsBeforeAnyRequest ==
    ( /\ done.op = "createTicket"
      /\ done.threw
      /\ done.error = "TARGET_APP is not set and no application was provided" ) =>
      \A i \in 1..Len(log) :
        (log[i].kind = "request" /\ log[i].path = "/databases/DB_ID") =>
          \E j \in (i + 1)..Len(log) :
            log[j].kind = "request" /\ log[j].path = "/pages"

(* C26: updateTicketAssignee(id, name) with a name that is not in the   *)
(* name-to-id map throws a failure that names the unknown member and    *)
(* sends nothing; with a name of the map it writes that member's id as  *)
(* the only assignee.                                                   *)
C26_UnknownAssigneeFails ==
    [][ \A name \in AssigneeNames, data \in WriteResponses :
          ScriptCall("updateTicketAssignee",
                     updateTicketAssignee(bridge, TicketArg, name, data)) =>
            IF name \in DOMAIN TEAM_USERS(bridge)
            THEN /\ WritesIn(Added) = 1
                 /\ IsWrite(Added[1])
                 /\ Added[1].path = "/pages/" \o TicketArg
                 /\ Added[1].body =
                      [properties |-> ("Assignee" :> People(<< TEAM_USERS(bridge)[name] >>))]
            ELSE /\ Added = << >>
                 /\ done'.threw
                 /\ done'.error = "Unknown team member " \o name ]_vars

(* C27: a mutation command of the CLI (create, start, done) that ends   *)
(* without a failure has ended in syncState: the last bridge function   *)
(* it ran is syncState, which returned.                                 *)
C27_MutationCommandsSync ==
    (cmd \in {"create", "start", "done"} /\ pc = "idle" /\ ~done.threw) =>
      done.op = "syncState"

IsLookup(e) == e.kind = "request" /\ e.path = "/databases/DB_ID"

(* C28: once resolveDataSourceId has succeeded in a process the          *)
(* identifier stays as it is, no step sends a database lookup again, and *)
(* a creation names that identifier as its parent.                       *)
C28_ResolvedOnce ==
    [][ dataSourceId # NULL =>
          /\ dataSourceId' = dataSourceId
          /\ \A i \in 1..Len(Added) :
               /\ ~IsLookup(Added[i])
               /\ (Added[i].kind = "request" /\ Added[i].path = "/pages") =>
                    Added[i].body.parent.data_source_id = dataSourceId ]_vars

(* a creation has passed resolveDataSourceId on the cached identifier:  *)
(* the call before it got through the resolution and then failed for    *)
(* want of an application, and the log holds that one lookup alone      *)
C28_Witness ==
    /\ pc = "create"
    /\ op = "createTicket"
    /\ dataSourceId = "ds2"
    /\ done.op = "createTicket"
    /\ done.error = "TARGET_APP is not set and no application was provided"
    /\ Cardinality({ i \in 1..Len(log) : IsLookup(log[i]) }) = 1

(* the response carries a cursor to go on with *)
GoesOn(data) ==
    /\ ~isError(data)
    /\ data.has_more
    /\ data.next_cursor \notin {NULL, ""}

(* C29: a traversal ends with the first response that is an error       *)
(* object or carries no further cursor (has_more false, or true with a  *)
(* null or empty next_cursor), and goes on after any other; nothing     *)
(* else takes it out of its loop; the remote answering at last with     *)
(* such a response, every traversal completes or fails.                 *)
C29_TraversalEnds ==
    /\ [][ pc = "query" =>
             \/ pc' = "query" /\ UNCHANGED responses
             \/ /\ responses' = Append(responses, Last(responses'))
                /\ IF isError(Last(responses'))
                   THEN pc' = "idle" /\ done'.threw
                   ELSE IF GoesOn(Last(responses'))
                   THEN pc' = "query" /\ cursor' = Last(responses').next_cursor
                   ELSE pc' = "fetched" /\ pages' = pages \o Last(responses').results ]_vars
    /\ (pc = "query") ~> (pc \in {"fetched", "idle"})

(* a traversal of two requests ended on has_more with an empty cursor *)
C29_Witness ==
    /\ pc = "fetched"
    /\ Len(responses) = 2
    /\ GoesOn(responses[1])
    /\ responses[2].has_more
    /\ responses[2].next_cursor = ""

(* C30: whatever status the remote holds for the ticket, and for every  *)
(* target among the seven, updateTicketStatus(id, target) sends its     *)
(* write of Status target as its first and only request, without        *)
(* reading the page, and fails only if the remote refuses the write; a  *)
(* ticket is created with Status Open.                                  *)
C30_NoWorkflowGraph ==
    [][ /\ \A target \in ShipyardStatus, now \in Clock, data \in WriteResponses :
             CallUpdateTicketStatus(TicketArg, target, now, data) =>
               /\ Added # << >>
               /\ IsWrite(Added[1])
               /\ Added[1].method = "PATCH"
               /\ Added[1].path = "/pages/" \o TicketArg
               /\ Added[1].body.properties["Status"] = Status(target)
               /\ \A i \in 1..Len(Added) :
                    Added[i].kind = "request" => i = 1
               /\ done'.threw <=> isError(data)
        /\ \A i \in 1..Len(Added) :
             (Added[i].kind = "request" /\ Added[i].path = "/pages") =>
               Added[i].body.properties["Status"] = Status("Open") ]_vars

(* a ticket the remote holds as Done was set to Open *)
C30_Witness ==
    /\ extractTicket(remote[1], AI_SQUAD_ID).status = "Done"
    /\ done.op = "updateTicketStatus"
    /\ ~done.threw
    /\ IsWrite(log[1])
    /\ log[1].path = "/pages/" \o TicketArg
    /\ log[1].body.properties["Status"] = Status("Open")

(* the entity one lookup returns: the invocation came back without an     *)
(* exception and without an error, and its body carries an entity         *)
Entity(answer) ==
    IF DOMAIN answer = {"data"} /\ answer.data.data # NULL THEN answer.data.data
    ELSE NULL

Selected(sources) ==
    LET matching == { i \in 1..Len(sources) : "Tickets" \in Range(sources[i].name) }
    IN  IF matching = {} THEN sources[1].id
        ELSE sources[CHOOSE i \in matching : \A j \in matching : i <= j].id

(* C32: data-source resolution selects the first source, in the order the *)
(* remote lists them, whose name contains "Tickets", and the first listed *)
(* source when none matches; an error response or an empty source list    *)
(* makes it throw and leaves the cache unset, so that the next operation  *)
(* asks the remote again.                                                  *)
C32_SelectsSource ==
    [][pc = "resolve" =>
         LET data == responses'[1]
             listed == IF "data_sources" \in DOMAIN data THEN data.data_sources ELSE << >>
         IN  /\ dataSourceId = NULL
             /\ Added = << Get("/databases/DB_ID") >>
             /\ IF data = ErrorObject \/ listed = << >>
                THEN /\ dataSourceId' = NULL
                     /\ pc' = "idle"
                     /\ done'.threw
                     /\ done'.error = (IF data = ErrorObject
                                       THEN "Failed to resolve data sources"
                                       ELSE "No data sources found on Shipyard database")
                ELSE /\ dataSourceId' = Selected(listed)
                     /\ pc' = "query"
                     /\ ~ done'.threw]_vars

C32_Witness ==
    /\ Len(log) = 2
    /\ responses # << >>
    /\ "data_sources" \in DOMAIN responses[1]
    /\ Len(responses[1].data_sources) = 3
    /\ responses[1].data_sources[1].id = "ds3"
    /\ responses[1].data_sources[2].id = "ds4"
    /\ responses[1].data_sources[3].id = "ds2"
    /\ dataSourceId = "ds4"

(* the two fields that hold one choice, with the attribute each gives *)
SingleChoices == { << "Area", "area" >>, << "Application", "application" >> }

(* C33: for Area and Application extractTicket gives the first element of *)
(* the multi-choice extraction, or null when it is empty.  The extraction *)
(* is all option names in order for a multi-select field, one element for *)
(* a select field carrying a value and empty otherwise, so a select field *)
(* gives the same area or application as a multi-select with that option  *)
(* alone.                                                                  *)
C33_FirstChoice ==
    Extracted =>
      \A c \in SingleChoices :
        LET raw == RawProperty(c[1])
            got == done.value[1][c[2]]
            names == IF raw = << >> THEN << >> ELSE extractMultiSelect(raw[1])
        IN  /\ ~ done.threw
            /\ got = (IF names = << >> THEN NULL ELSE names[1])
            /\ \A list \in {<< >>, << "Backend" >>, << "X" >>, << "Backend", "X" >>,
                              << "X", "Backend" >>, << "Frontend", "Backend", "X" >>} :
                 raw = << MultiSelect(list) >> => names = list
            /\ \A name \in {"Backend", "X"} :
                 /\ raw = << Select(name) >> => names = << name >>
                 /\ raw \in { << Select(name) >>, << MultiSelect(<< name >>) >> }
                      => got = name
            /\ (raw = << >> \/ raw[1].type \notin {"multi_select", "select"}
                   \/ raw[1] \in {Select(NULL), Select(""), [type |-> "select"],
                                   [type |-> "multi_select"]})
                 => names = << >> /\ got = NULL

(* a select Area gave the area that the one-option multi-select gives *)
C33_Witness ==
    /\ Extracted
    /\ RawProperty("Area") = << Select("Backend") >>
    /\ RawProperty("Application") = << MultiSelect(<< "X" >>) >>
    /\ done.value[1].area = "Backend"
    /\ done.value[1].application = "X"

(* C34: syncState writes the snapshot file only after the complete listing *)
(* has been fetched: the only step of a running syncState that changes    *)
(* the file is the one after a traversal whose responses all signalled    *)
(* more but the last, none of them an error; when the resolution or a     *)
(* page request fails, syncState throws and the file is as it was, absent *)
(* if it was absent.                                                      *)
C34_WriteAfterFetch ==
    [][op = "syncState" =>
         /\ file' # file =>
              /\ pc = "fetched"
              /\ responses # << >>
              /\ \A k \in 1..(Len(responses) - 1) : GoesOn(responses[k])
              /\ ~ isError(Last(responses)) /\ ~ GoesOn(Last(responses))
              /\ ~ done'.threw
         /\ pc # "fetched" => file' = file
         /\ (\/ pc = "resolve" /\ dataSourceId' = NULL
             \/ pc = "query" /\ isError(Last(responses')))
              => /\ done'.threw
                 /\ done'.op = "syncState"
                 /\ pc' = "idle"
                 /\ file' = file]_vars

(* a syncState that failed on its second page, with no file before or after *)
C34_Witness ==
    /\ done.threw
    /\ done.op = "syncState"
    /\ Len(responses) = 2
    /\ GoesOn(responses[1])
    /\ isError(responses[2])
    /\ file = Absent

(* C35: cmdSync prints every item of the queue syncState returned exactly *)
(* once: each queued ticket, whichever of Open, In Progress, In Review    *)
(* and Review AI Fix its status is, is printed under one status group, so *)
(* the number of items printed is the number of active tickets announced. *)
C35_EveryItemPrinted ==
    (cmd = "sync" /\ done.op = "syncState" /\ ~ done.threw) =>
      LET queue == done.value[1].queue
          lines == printed(queue)
      IN  /\ \A i \in 1..Len(queue) :
               queue[i].status \in {"Open", "In Progress", "In Review", "Review AI Fix"}
                 => Cardinality({ j \in 1..Len(lines) : lines[j] = queue[i] }) = 1
          /\ Len(lines) = Len(queue)

(* the write of one property of the ticket of the command *)
WriteOf(key, value) ==
    Send("PATCH", "/pages/" \o TicketArg, [properties |-> (key :> value)])

(* C36: cmdStart writes the status In Progress first and the branch       *)
(* second, and appends the "started" entry and syncs only after both      *)
(* writes have succeeded: when the status write fails nothing follows it, *)
(* and when the branch write fails the status write stays as accepted,    *)
(* with no history entry and no sync.                                     *)
C36_StartInOrder ==
    [][cmd = "start" =>
         /\ pc = "main" =>
              /\ log = << >>
              /\ Added[1] = WriteOf("Status", Status("In Progress"))
              /\ WritesIn(Added) = 1
              /\ file' = file
              /\ pc' = (IF done'.threw THEN "idle" ELSE "start:branch")
         /\ pc = "start:branch" =>
              /\ log = << WriteOf("Status", Status("In Progress")), sleep(RATE_LIMIT_DELAY) >>
              /\ Added[1] = WriteOf("Branch", RichText(<< "feature/shipyard-t1" >>))
              /\ WritesIn(Added) = 1
              /\ IF done'.threw
                 THEN /\ pc' = "idle"
                      /\ file' = file
                      /\ remote' = remote
                 ELSE /\ pc' = "resolve" /\ op' = "syncState"
                      /\ file.kind = "json" =>
                           /\ Len(HistoryOf(file')) = Len(HistoryOf(file)) + 1
                           /\ Last(HistoryOf(file')).action = "started"
                           /\ Last(HistoryOf(file')).ticket_id = TicketArg
         /\ pc = "idle" => FALSE
         /\ op = "syncState" =>
              /\ SubSeq(log, 1, 4) =
                   << WriteOf("Status", Status("In Progress")), sleep(RATE_LIMIT_DELAY),
                      WriteOf("Branch", RichText(<< "feature/shipyard-t1" >>)),
                      sleep(RATE_LIMIT_DELAY) >>
              /\ WritesIn(Added) = 0
              /\ HistoryOf(file') = HistoryOf(file)]_vars

(* the branch write failed after the status write went through: the      *)
(* remote lists the ticket In Progress, the snapshot has no entry and is  *)
(* not synced                                                            *)
C36_Witness ==
    /\ cmd = "start"
    /\ pc = "idle"
    /\ done.threw
    /\ done.op = "updateTicketBranch"
    /\ Len(remote) = 2
    /\ extractTicket(remote[2], AI_SQUAD_ID).status = "In Progress"
    /\ file.kind = "json"
    /\ HistoryOf(file) = << >>
    /\ file.queue = << StaleItem >>

(* the step is a call of appendHistory made during the fetch *)
AppendsDuringFetch ==
    /\ pc \in {"resolve", "query", "fetched"}
    /\ pc' = pc
    /\ requests' = requests
    /\ done'.op = "appendHistory"

(* C37: syncState reads the history only after the whole listing has been *)
(* fetched, and writes the snapshot in the step of that read: an entry    *)
(* that appendHistory appended to the snapshot while the fetch was in     *)
(* progress is in the snapshot this syncState writes.                     *)
C37_AppendDuringFetchKept ==
    [][op = "syncState" =>
         /\ (AppendsDuringFetch /\ file.kind = "json") =>
              HistoryOf(file') = Append(HistoryOf(file), done'.value[1])
         /\ (~ AppendsDuringFetch /\ pc # "fetched") => file' = file
         /\ (~ AppendsDuringFetch /\ pc = "fetched") =>
              /\ file'.kind = "json"
              /\ file'.history = HistoryOf(file)
              /\ done'.value[1].history = HistoryOf(file)]_vars

(* a sync over three requests wrote the two entries appended meanwhile *)
C37_Witness ==
    /\ done.op = "syncState" /\ ~ done.threw
    /\ file.last_synced \in Clock
    /\ Len(file.history) = 2
    /\ file.history[1] # file.history[2]
    /\ Len(file.queue) = 2

(* the remote lists the ticket of the command with the properties that    *)
(* the first write of the run carried                                     *)
ReflectsWrite ==
    \A i \in 1..Len(remote) :
      remote[i].id = TicketArg =>
        \A key \in DOMAIN log[1].body.properties :
          /\ key \in DOMAIN remote[i].properties
          /\ remote[i].properties[key] = log[1].body.properties[key]

(* C38: when cmdDone(t) ends without a failure and the remote listing     *)
(* reflects the status write, the queue of the snapshot written does not  *)
(* hold t; and when a snapshot that parses was there before the command,  *)
(* a "done" entry for t is appended to its history before the sync, and   *)
(* the history written ends with it.                                      *)
C38_DoneLeavesQueue ==
    [][cmd = "done" =>
         /\ (pc = "main" /\ ~ done'.threw) =>
              /\ op' = "syncState"
              /\ IF file.kind = "json"
                 THEN /\ Len(HistoryOf(file')) = Len(HistoryOf(file)) + 1
                      /\ SubSeq(HistoryOf(file'), 1, Len(HistoryOf(file))) = HistoryOf(file)
                      /\ Last(HistoryOf(file')).action = "done"
                      /\ Last(HistoryOf(file')).ticket_id = TicketArg
                 ELSE file' = file
         /\ (op = "syncState" /\ pc = "fetched") =>
              /\ pc' = "idle"
              /\ done'.op = "syncState" /\ ~ done'.threw
              /\ ReflectsWrite => TicketArg \notin QueuedIds(file'.queue)
              /\ file.kind = "json" =>
                   /\ Last(file'.history).action = "done"
                   /\ Last(file'.history).ticket_id = TicketArg]_vars

(* --done t1 ended: the remote lists t1 as Done, the queue written holds  *)
(* the other ticket alone, and the history ends with the entry            *)
C38_Witness ==
    /\ cmd = "done"
    /\ pc = "idle"
    /\ done.op = "syncState" /\ ~ done.threw
    /\ Len(remote) = 2
    /\ extractTicket(remote[2], AI_SQUAD_ID).status = "Done"
    /\ QueuedIds(file.queue) = {"t2"}
    /\ Len(file.history) = 1
    /\ file.history[1].action = "done"

(* C39: the assignee argument never makes createTicket fail, and the     *)
(* request it sends carries at most one assignee: the member, for a name *)
(* of the name-to-id map; for a name that is not in the map, or no name, *)
(* the acting identity when one is configured and no assignee otherwise. *)
C39_AssigneeFallsBack ==
    [][ \A args \in CreateArgs :
          \A data \in CreateResponses(createPayload(bridge, dataSourceId, args,
                                                     TARGET_APP, AI_SQUAD_ID)) :
            (CreateTicket(args, data) /\ Added # << >>) =>
              LET properties == Added[1].body.properties
              IN  /\ Added[1].path = "/pages"
                  /\ done'.threw <=> data = ErrorObject
                  /\ IF args.assignee \in DOMAIN TEAM_USERS(bridge)
                     THEN /\ "Assignee" \in DOMAIN properties
                          /\ properties["Assignee"]
                               = People(<< TEAM_USERS(bridge)[args.assignee] >>)
                     ELSE IF AI_SQUAD_ID # ""
                     THEN /\ "Assignee" \in DOMAIN properties
                          /\ properties["Assignee"] = People(<< AI_SQUAD_ID >>)
                     ELSE "Assignee" \notin DOMAIN properties ]_vars

====
